---------------------------- MODULE Spec2Model ----------------------------
(***************************************************************************)
(* Model of the Property Registry (src/src/services/PropertyService.ts)    *)
(* and the Task Ledger (src/src/services/TaskService.ts) of allproperly.   *)
(*                                                                         *)
(* The document store is two collections, `properties` and `tasks`, each   *)
(* a function from the ids of the stored documents to their fields.  Ids   *)
(* are generated by addDoc and never reused.  One action models one whole  *)
(* call of a service function by a single session (the awaits of one call  *)
(* are not interleaved with another call in Spec).  serverTimestamp()      *)
(* fields (createdAt, updatedAt) are not modelled; the plain data fields   *)
(* of a property (address, type, notes, photoURL, historyVisible) are      *)
(* written by the same object spread as propertyStatus and are             *)
(* represented by it.                                                      *)
(***************************************************************************)
EXTENDS Integers, Sequences, FiniteSets, TLC

\* ------------------------------------------------------------------ bounds
MaxProps == 1        \* properties ever created (addDoc calls on "properties")
MaxTasks == 2        \* tasks ever created (addDoc calls on "tasks")

\* ------------------------------------------------------------ value spaces
Users == {"A", "B", "C"}
NoUser == "null"                      \* completedBy: null
PropIds == 1..MaxProps                \* ids the registry calls are made on
TaskIds == 1..MaxTasks
NoId == 0                             \* "no document" in the call record

ShareRoles == {"collaborator", "viewer"}
PropertyStatuses == {"active", "sold"}   \* of 'active' | 'sold' | 'archived'

\* A PropertyShare { userId, role }
Share(u, r) == [userId |-> u, role |-> r]

\* --------------------------------------------------------------- variables
VARIABLES
  properties,     \* collection "properties": id -> document
  tasks,          \* collection "tasks": id -> document
  nextPropId,     \* next id addDoc hands out in "properties"
  nextTaskId,     \* next id addDoc hands out in "tasks"
  successors,     \* history: task id -> ids of the tasks created from it
  last,           \* the last call: function, acting user, target, outcome
  users,          \* collection "users": uid -> document
  inflight,       \* async calls that have read and not yet written: their locals
  cache           \* the query cache of the client: query key -> fresh or stale

vars == <<properties, tasks, nextPropId, nextTaskId, successors, last,
          users, inflight, cache>>

\* What the calls of PropertyService and TaskService modelled as one step
\* leave alone
clientVars == <<users, inflight, cache>>

\* The record of a call that returned: the function, the acting user, the
\* property or task it was called on and the id of the task it created.
\* The field `changed` of a call record is filled in by Record.
Done(op, u, pid, tid, created) ==
  [op |-> op, user |-> u, pid |-> pid, tid |-> tid,
   result |-> "ok", created |-> created, returned |-> <<>>,
   changed |-> FALSE]

\* The record of a reader that returned the tasks `ids`
Read(op, u, pid, ids) ==
  [op |-> op, user |-> u, pid |-> pid, tid |-> NoId,
   result |-> "ok", created |-> NoId, returned |-> ids,
   changed |-> FALSE]

\* The record of a call that threw after it had written to the store
Failed(op, u, pid, tid, result) ==
  [op |-> op, user |-> u, pid |-> pid, tid |-> tid,
   result |-> result, created |-> NoId, returned |-> <<>>,
   changed |-> FALSE]

\* The record of a call that threw before it wrote anything: the kind of
\* Error only.  The function and the arguments of a rejected call are not
\* kept.
Thrown(result) ==
  [op |-> "rejected", user |-> NoUser, pid |-> NoId, tid |-> NoId,
   result |-> result, created |-> NoId, returned |-> <<>>,
   changed |-> FALSE]

\* The call `call` is the last one; `changed` tells whether the stored
\* documents after it differ from the ones before it.  The conjunct comes
\* after the ones that fix properties' and tasks'.
Record(call) ==
  last' = [call EXCEPT !.changed = (properties' # properties \/ tasks' # tasks)]

\* ------------------------------------------------- generic helper operators
\* Array.prototype.find on a sharedWith list: index of the first entry whose
\* userId is u, 0 when there is none.
FindShare(sw, u) ==
  IF \E i \in 1..Len(sw) : sw[i].userId = u
    THEN CHOOSE i \in 1..Len(sw) :
           /\ sw[i].userId = u
           /\ \A j \in 1..(i - 1) : sw[j].userId # u
    ELSE 0

\* ------------------------------------------------------- Property Registry
NonePropertyPermissions ==
  [canView |-> FALSE, canEdit |-> FALSE, canDelete |-> FALSE,
   canShare |-> FALSE, role |-> "none"]

\* getPropertyById: does the document exist
PropertyExists(props, p) == p \in DOMAIN props

\* Variant of PropertyPermissionsIn that looks at sharedWith before ownerId
PropertyPermissionsShareFirst(props, u, p) ==
  IF ~PropertyExists(props, p) THEN NonePropertyPermissions
  ELSE LET i == FindShare(props[p].sharedWith, u) IN
    IF i # 0 /\ props[p].sharedWith[i].role = "collaborator"
      THEN [canView |-> TRUE, canEdit |-> TRUE, canDelete |-> FALSE,
            canShare |-> FALSE, role |-> "collaborator"]
    ELSE IF i # 0 /\ props[p].sharedWith[i].role = "viewer"
      THEN [canView |-> TRUE, canEdit |-> FALSE, canDelete |-> FALSE,
            canShare |-> FALSE, role |-> "viewer"]
    ELSE IF props[p].ownerId = u
      THEN [canView |-> TRUE, canEdit |-> TRUE, canDelete |-> TRUE,
            canShare |-> TRUE, role |-> "owner"]
    ELSE NonePropertyPermissions

\* getUserPropertyPermissions(userId, propertyId), on a given collection
PropertyPermissionsIn(props, u, p) ==
  IF ~PropertyExists(props, p) THEN NonePropertyPermissions
  ELSE IF props[p].ownerId = u
    THEN [canView |-> TRUE, canEdit |-> TRUE, canDelete |-> TRUE,
          canShare |-> TRUE, role |-> "owner"]
  ELSE LET i == FindShare(props[p].sharedWith, u) IN
    IF i # 0 /\ props[p].sharedWith[i].role = "collaborator"
      THEN [canView |-> TRUE, canEdit |-> TRUE, canDelete |-> FALSE,
            canShare |-> FALSE, role |-> "collaborator"]
    ELSE IF i # 0 /\ props[p].sharedWith[i].role = "viewer"
      THEN [canView |-> TRUE, canEdit |-> FALSE, canDelete |-> FALSE,
            canShare |-> FALSE, role |-> "viewer"]
    ELSE NonePropertyPermissions

getUserPropertyPermissions(u, p) == PropertyPermissionsIn(properties, u, p)

\* A Firestore document after updateDoc(docRef, patch): the fields of the
\* patch replace the stored ones, the others stay.
ApplyPatch(document, patch) ==
  [f \in (DOMAIN document) \cup (DOMAIN patch) |->
     IF f \in DOMAIN patch THEN patch[f] ELSE document[f]]

\* deleteDoc(docRef) on a collection
RemoveDoc(coll, id) == [q \in (DOMAIN coll) \ {id} |-> coll[q]]

\* `delete updateData.ownerId`
StripOwnerId(patch) == [f \in (DOMAIN patch) \ {"ownerId"} |-> patch[f]]

\* The users who register properties, and the users a property is shared with
\* through shareProperty
OwnerInputs == Users
ShareTargets == {"B"}

\* The sharedWith lists callers pass in PropertyInput.sharedWith
ShareListInputs ==
  { <<>>,
    <<Share("C", "collaborator")>>,
    <<Share("B", "viewer"), Share("B", "collaborator")>> }

\* The Partial<PropertyInput> patches callers pass to updateProperty
PropertyPatches ==
  { [propertyStatus |-> "sold"],
    [ownerId |-> "B", propertyStatus |-> "archived"],
    [sharedWith |-> <<Share("B", "viewer"), Share("B", "collaborator")>>] }

\* addProperty(data): the stored document, defaults filled in
NewProperty(data) ==
  [ownerId |-> data.ownerId,
   sharedWith |-> IF "sharedWith" \in DOMAIN data THEN data.sharedWith ELSE <<>>,
   propertyStatus |-> IF "propertyStatus" \in DOMAIN data
                        THEN data.propertyStatus ELSE "active"]

\* addProperty(data): no permission check
AddProperty ==
  /\ nextPropId <= MaxProps
  /\ nextPropId' = nextPropId + 1
  /\ UNCHANGED clientVars
  /\ UNCHANGED <<tasks, nextTaskId, successors>>
  /\ \E owner \in OwnerInputs, sw \in ShareListInputs :
       /\ properties' = properties @@
            (nextPropId :> NewProperty([ownerId |-> owner, sharedWith |-> sw]))
       /\ Record(Done("addProperty", owner, nextPropId, NoId, NoId))

\* Variant of UpdatedProperty without `delete updateData.ownerId`
UpdatedPropertyWithOwnerId(document, patch) == ApplyPatch(document, patch)

\* updateProperty: the document written by updateDoc
UpdatedProperty(document, patch) == ApplyPatch(document, StripOwnerId(patch))

updatePropertyResult(u, p) ==
  IF ~getUserPropertyPermissions(u, p).canEdit THEN "PermissionDenied" ELSE "ok"

\* updateProperty(id, data, userId)
UpdateProperty ==
  \E p \in PropIds, patch \in PropertyPatches, u \in Users :
    /\ UNCHANGED clientVars
    /\ UNCHANGED <<tasks, nextPropId, nextTaskId, successors>>
    /\ IF updatePropertyResult(u, p) # "ok"
         THEN /\ UNCHANGED properties
              /\ Record(Thrown(updatePropertyResult(u, p)))
         ELSE /\ properties' = [properties EXCEPT ![p] = UpdatedProperty(@, patch)]
              /\ Record(Done("updateProperty", u, p, NoId, NoId))

\* Variant of deletePropertyResult that asks for canEdit
deletePropertyResultByCanEdit(u, p) ==
  IF ~getUserPropertyPermissions(u, p).canEdit THEN "PermissionDenied" ELSE "ok"

deletePropertyResult(u, p) ==
  IF ~getUserPropertyPermissions(u, p).canDelete THEN "PermissionDenied" ELSE "ok"

\* deleteProperty(id, userId)
DeleteProperty ==
  \E p \in PropIds, u \in Users :
    /\ UNCHANGED clientVars
    /\ UNCHANGED <<tasks, nextPropId, nextTaskId, successors>>
    /\ IF deletePropertyResult(u, p) # "ok"
         THEN /\ UNCHANGED properties
              /\ Record(Thrown(deletePropertyResult(u, p)))
         ELSE /\ properties' = RemoveDoc(properties, p)
              /\ Record(Done("deleteProperty", u, p, NoId, NoId))

\* The sharedWith list shareProperty writes: the role of every entry of the
\* target is replaced when find() sees one, else an entry is appended.
UpdatedSharedWith(sw, target, role) ==
  IF FindShare(sw, target) # 0
    THEN [i \in 1..Len(sw) |->
            IF sw[i].userId = target THEN Share(sw[i].userId, role) ELSE sw[i]]
    ELSE Append(sw, Share(target, role))

sharePropertyResult(u, p) ==
  IF ~getUserPropertyPermissions(u, p).canShare THEN "PermissionDenied" ELSE "ok"

\* shareProperty(propertyId, targetUserId, role, currentUserId)
ShareProperty ==
  \E p \in PropIds, target \in ShareTargets, role \in ShareRoles, u \in Users :
    /\ UNCHANGED clientVars
    /\ UNCHANGED <<tasks, nextPropId, nextTaskId, successors>>
    /\ IF sharePropertyResult(u, p) # "ok"
         THEN /\ UNCHANGED properties
              /\ Record(Thrown(sharePropertyResult(u, p)))
         ELSE /\ properties' = [properties EXCEPT
                   ![p].sharedWith = UpdatedSharedWith(@, target, role)]
              /\ Record(Done("shareProperty", u, p, NoId, NoId))

\* updatePropertyStatus(propertyId, status) has no userId parameter and makes
\* no permission check; u is the user of the session that calls it.
\* updateDoc on a document that does not exist rejects.
updatePropertyStatusResult(u, p) ==
  IF ~PropertyExists(properties, p) THEN "StoreError" ELSE "ok"

UpdatePropertyStatus ==
  \E p \in PropIds, status \in PropertyStatuses, u \in Users :
    /\ UNCHANGED clientVars
    /\ UNCHANGED <<tasks, nextPropId, nextTaskId, successors>>
    /\ IF updatePropertyStatusResult(u, p) # "ok"
         THEN /\ UNCHANGED properties
              /\ Record(Thrown(updatePropertyStatusResult(u, p)))
         ELSE /\ properties' = [properties EXCEPT ![p].propertyStatus = status]
              /\ Record(Done("updatePropertyStatus", u, p, NoId, NoId))

\* ------------------------------------------- specification of the registry
InitRegistry ==
  /\ properties = << >>
  /\ tasks = << >>
  /\ nextPropId = 1
  /\ users = << >>
  /\ inflight = << >>
  /\ cache = << >>
  /\ nextTaskId = 1
  /\ successors = << >>
  /\ last = Done("init", NoUser, NoId, NoId, NoId)

NextRegistry ==
  \/ AddProperty
  \/ UpdateProperty
  \/ DeleteProperty
  \/ ShareProperty
  \/ UpdatePropertyStatus

SpecRegistry == InitRegistry /\ [][NextRegistry]_vars

\* ------------------------------------------------------------- Task Ledger
NoneTaskPermissions ==
  [canView |-> FALSE, canEdit |-> FALSE, canCreate |-> FALSE,
   canDelete |-> FALSE, role |-> "none"]

\* Variant of TaskPermissionsIn in which a viewer may edit
TaskPermissionsViewerEdits(props, u, p) ==
  IF ~PropertyExists(props, p) THEN NoneTaskPermissions
  ELSE IF props[p].ownerId = u
    THEN [canView |-> TRUE, canEdit |-> TRUE, canCreate |-> TRUE,
          canDelete |-> TRUE, role |-> "owner"]
  ELSE LET i == FindShare(props[p].sharedWith, u) IN
    IF i # 0 /\ props[p].sharedWith[i].role = "collaborator"
      THEN [canView |-> TRUE, canEdit |-> TRUE, canCreate |-> TRUE,
            canDelete |-> TRUE, role |-> "collaborator"]
    ELSE IF i # 0 /\ props[p].sharedWith[i].role = "viewer"
      THEN [canView |-> TRUE, canEdit |-> TRUE, canCreate |-> FALSE,
            canDelete |-> FALSE, role |-> "viewer"]
    ELSE NoneTaskPermissions

\* getUserTaskPermissions(userId, propertyId), on a given collection
TaskPermissionsIn(props, u, p) ==
  IF ~PropertyExists(props, p) THEN NoneTaskPermissions
  ELSE IF props[p].ownerId = u
    THEN [canView |-> TRUE, canEdit |-> TRUE, canCreate |-> TRUE,
          canDelete |-> TRUE, role |-> "owner"]
  ELSE LET i == FindShare(props[p].sharedWith, u) IN
    IF i # 0 /\ props[p].sharedWith[i].role = "collaborator"
      THEN [canView |-> TRUE, canEdit |-> TRUE, canCreate |-> TRUE,
            canDelete |-> TRUE, role |-> "collaborator"]
    ELSE IF i # 0 /\ props[p].sharedWith[i].role = "viewer"
      THEN [canView |-> TRUE, canEdit |-> FALSE, canCreate |-> FALSE,
            canDelete |-> FALSE, role |-> "viewer"]
    ELSE NoneTaskPermissions

getUserTaskPermissions(u, p) == TaskPermissionsIn(properties, u, p)

\* checkTaskAccess(userId, taskId) on the task collection ts
TaskAccessIn(ts, u, t) ==
  IF t \notin DOMAIN ts THEN NoneTaskPermissions
  ELSE getUserTaskPermissions(u, ts[t].propertyId)

checkTaskAccess(u, t) == TaskAccessIn(tasks, u, t)

\* --- strings: a title or description is a sequence of characters
RECURSIVE TrimStart(_)
TrimStart(s) == IF s # <<>> /\ Head(s) = " " THEN TrimStart(Tail(s)) ELSE s

RECURSIVE TrimEnd(_)
TrimEnd(s) ==
  IF s # <<>> /\ s[Len(s)] = " " THEN TrimEnd(SubSeq(s, 1, Len(s) - 1)) ELSE s

\* String.prototype.trim
Trim(s) == TrimEnd(TrimStart(s))

\* --- dates: a calendar date [y, m, d] with m in 0..11 as in a JS Date
Date(y, m, d) == [y |-> y, m |-> m, d |-> d]

IsLeapYear(y) == (y % 4 = 0 /\ y % 100 # 0) \/ y % 400 = 0

DaysInMonth(y, m) ==
  IF m = 1 THEN (IF IsLeapYear(y) THEN 29 ELSE 28)
  ELSE IF m \in {3, 5, 8, 10} THEN 30 ELSE 31

\* The date a JS Date holds after its fields are set to (y, m, d): months
\* outside 0..11 carry into the year, days outside the month carry into the
\* neighbouring months.
RECURSIVE NormalizeDate(_, _, _)
NormalizeDate(y, m, d) ==
  LET yy == y + (m \div 12)
      mm == m % 12
  IN IF d > DaysInMonth(yy, mm)
       THEN NormalizeDate(yy, mm + 1, d - DaysInMonth(yy, mm))
     ELSE IF d < 1
       THEN LET py == yy + ((mm - 1) \div 12)
                pm == (mm - 1) % 12
            IN NormalizeDate(py, pm, d + DaysInMonth(py, pm))
     ELSE Date(yy, mm, d)

\* getTime() order of two dates
DateKey(dt) == (dt.y * 12 + dt.m) * 32 + dt.d

\* --- recurrence: task.recurrence, `null` being a record of its own
NoRecurrence == [freq |-> "none", interval |-> 0]
Recurrence(f, n) == [freq |-> f, interval |-> n]

\* Variant of SupportedFreqs with a case the switch does not have
SupportedFreqsWithWeekly == {"monthly", "yearly", "custom", "weekly"}

\* The cases of the switch of createRecurringTask
SupportedFreqs == {"monthly", "yearly", "custom"}

\* Variant of NextDueDate in which a monthly step stops at the last day of
\* the month it lands in
NextDueDateClamped(due, rec) ==
  IF rec.freq = "monthly"
    THEN LET y == due.y + ((due.m + rec.interval) \div 12)
             m == (due.m + rec.interval) % 12
         IN Date(y, m, IF due.d > DaysInMonth(y, m) THEN DaysInMonth(y, m) ELSE due.d)
  ELSE IF rec.freq = "yearly" THEN NormalizeDate(due.y + rec.interval, due.m, due.d)
  ELSE NormalizeDate(due.y, due.m, due.d + rec.interval)

\* Variant of NextDueDate in which a custom step does not leave the month
NextDueDateWithinMonth(due, rec) ==
  IF rec.freq = "monthly" THEN NormalizeDate(due.y, due.m + rec.interval, due.d)
  ELSE IF rec.freq = "yearly" THEN NormalizeDate(due.y + rec.interval, due.m, due.d)
  ELSE Date(due.y, due.m, ((due.d + rec.interval - 1) % DaysInMonth(due.y, due.m)) + 1)

\* The switch of createRecurringTask: the next due date
NextDueDate(due, rec) ==
  IF rec.freq = "monthly" THEN NormalizeDate(due.y, due.m + rec.interval, due.d)
  ELSE IF rec.freq = "yearly" THEN NormalizeDate(due.y + rec.interval, due.m, due.d)
  ELSE NormalizeDate(due.y, due.m, due.d + rec.interval)

\* An optional field of an input object: `data.f || dflt`
Opt(data, f, dflt) == IF f \in DOMAIN data THEN data[f] ELSE dflt

\* addTask: permission check, then validation, in the order of the code
addTaskResultIn(props, data, u) ==
  IF ~TaskPermissionsIn(props, u, Opt(data, "propertyId", NoId)).canCreate
    THEN "PermissionDenied"
  ELSE IF Trim(data.title) = <<>> THEN "ValidationError"
  ELSE IF "propertyId" \notin DOMAIN data THEN "ValidationError"
  ELSE IF "dueDate" \notin DOMAIN data THEN "ValidationError"
  ELSE "ok"

addTaskResult(data, u) == addTaskResultIn(properties, data, u)

\* addTask: the document handed to addDoc
NewTask(data) ==
  [propertyId |-> data.propertyId,
   title |-> Trim(data.title),
   description |-> Trim(Opt(data, "description", <<>>)),
   dueDate |-> data.dueDate,
   recurrence |-> Opt(data, "recurrence", NoRecurrence),
   status |-> "pending",
   seasonal |-> Opt(data, "seasonal", FALSE),
   geolocated |-> Opt(data, "geolocated", FALSE),
   source |-> Opt(data, "source", "manual"),
   completedBy |-> NoUser]

\* The registry the task ledger runs on: property 1 of A, shared with B as
\* viewer; property 2 of C, shared with B as collaborator.
TaskRegistry ==
  (1 :> [ownerId |-> "A",
         sharedWith |-> <<Share("B", "viewer")>>,
         propertyStatus |-> "active"]) @@
  (2 :> [ownerId |-> "C",
         sharedWith |-> <<Share("B", "collaborator")>>,
         propertyStatus |-> "active"])

\* The users who call the task functions: A owns property 1 and has no
\* relation to property 2, B is a viewer of property 1 and a collaborator
\* of property 2.
Callers == {"A", "B"}

\* The TaskInput objects callers pass to addTask
TaskInputs ==
  { [propertyId |-> 1, title |-> <<"a">>, description |-> <<"d">>,
     dueDate |-> Date(2024, 0, 15), recurrence |-> Recurrence("monthly", 1),
     seasonal |-> TRUE, geolocated |-> TRUE, source |-> "template"],
    [propertyId |-> 2, title |-> <<"b", " ">>, dueDate |-> Date(2024, 2, 1)],
    [propertyId |-> 1, title |-> <<" ">>, dueDate |-> Date(2024, 0, 15)],
    [propertyId |-> 1, title |-> <<"a">>],
    [title |-> <<"a">>, dueDate |-> Date(2024, 0, 15)] }

\* The Partial<TaskInput> patches callers pass to updateTask
TaskPatches ==
  { [title |-> <<" ", "a">>] }

\* addTask(data, userId)
AddTask ==
  \E data \in TaskInputs, u \in Callers :
    /\ UNCHANGED clientVars
    /\ UNCHANGED <<properties, nextPropId>>
    /\ IF addTaskResult(data, u) # "ok"
         THEN /\ UNCHANGED <<tasks, nextTaskId, successors>>
              /\ Record(Thrown(addTaskResult(data, u)))
         ELSE /\ nextTaskId <= MaxTasks
              /\ tasks' = tasks @@ (nextTaskId :> NewTask(data))
              /\ nextTaskId' = nextTaskId + 1
              /\ successors' = successors @@ (nextTaskId :> {})
              /\ Record(Done("addTask", u, data.propertyId, nextTaskId, nextTaskId))

\* getTaskById(id, userId): "null", "PermissionDenied" or "ok"
getTaskByIdResultIn(ts, t, u) ==
  IF t \notin DOMAIN ts THEN "null"
  ELSE IF ~getUserTaskPermissions(u, ts[t].propertyId).canView THEN "PermissionDenied"
  ELSE "ok"

updateTaskResult(t, u) ==
  IF ~checkTaskAccess(u, t).canEdit THEN "PermissionDenied" ELSE "ok"

\* updateTask(id, data, userId)
UpdateTask ==
  \E t \in TaskIds, patch \in TaskPatches, u \in Callers :
    /\ UNCHANGED clientVars
    /\ UNCHANGED <<properties, nextPropId, nextTaskId, successors>>
    /\ IF updateTaskResult(t, u) # "ok"
         THEN /\ UNCHANGED tasks
              /\ Record(Thrown(updateTaskResult(t, u)))
         ELSE /\ tasks' = [tasks EXCEPT ![t] = ApplyPatch(@, patch)]
              /\ Record(Done("updateTask", u, tasks[t].propertyId, t, NoId))

\* Variant of CompletedTask whose write is taken back
CompletedTaskRolledBack(task, u) == task

\* completeTask: the document after updateDoc
CompletedTask(task, u) == [task EXCEPT !.status = "completed", !.completedBy = u]

completeTaskResultIn(ts, t, u) ==
  IF ~TaskAccessIn(ts, u, t).canEdit THEN "PermissionDenied" ELSE "ok"

completeTaskResult(t, u) == completeTaskResultIn(tasks, t, u)

\* completeTask(id, userId)
CompleteTask ==
  \E t \in TaskIds, u \in Callers :
    /\ UNCHANGED clientVars
    /\ UNCHANGED <<properties, nextPropId, nextTaskId, successors>>
    /\ IF completeTaskResult(t, u) # "ok"
         THEN /\ UNCHANGED tasks
              /\ Record(Thrown(completeTaskResult(t, u)))
         ELSE /\ tasks' = [tasks EXCEPT ![t] = CompletedTask(@, u)]
              /\ Record(Done("completeTask", u, tasks[t].propertyId, t, NoId))

\* Variant of ReopenedTask that reopens completed tasks only
ReopenedTaskFromCompleted(task) ==
  IF task.status = "completed"
    THEN [task EXCEPT !.status = "pending", !.completedBy = NoUser]
    ELSE task

\* Variant of ReopenedTask that leaves completedBy as it is
ReopenedTaskKeepingCompletedBy(task) == [task EXCEPT !.status = "pending"]

\* reopenTask: the document after updateDoc
ReopenedTask(task) == [task EXCEPT !.status = "pending", !.completedBy = NoUser]

reopenTaskResult(t, u) ==
  IF ~checkTaskAccess(u, t).canEdit THEN "PermissionDenied" ELSE "ok"

\* reopenTask(id, userId)
ReopenTask ==
  \E t \in TaskIds, u \in Callers :
    /\ UNCHANGED clientVars
    /\ UNCHANGED <<properties, nextPropId, nextTaskId, successors>>
    /\ IF reopenTaskResult(t, u) # "ok"
         THEN /\ UNCHANGED tasks
              /\ Record(Thrown(reopenTaskResult(t, u)))
         ELSE /\ tasks' = [tasks EXCEPT ![t] = ReopenedTask(@)]
              /\ Record(Done("reopenTask", u, tasks[t].propertyId, t, NoId))

\* skipTask: the document after updateDoc (completedBy is not in the patch)
SkippedTask(task) == [task EXCEPT !.status = "skipped"]

\* Variant of skipTaskResult that asks for canView
skipTaskResultByCanView(t, u) ==
  IF ~checkTaskAccess(u, t).canView THEN "PermissionDenied" ELSE "ok"

skipTaskResult(t, u) ==
  IF ~checkTaskAccess(u, t).canEdit THEN "PermissionDenied" ELSE "ok"

\* skipTask(id, userId)
SkipTask ==
  \E t \in TaskIds, u \in Callers :
    /\ UNCHANGED clientVars
    /\ UNCHANGED <<properties, nextPropId, nextTaskId, successors>>
    /\ IF skipTaskResult(t, u) # "ok"
         THEN /\ UNCHANGED tasks
              /\ Record(Thrown(skipTaskResult(t, u)))
         ELSE /\ tasks' = [tasks EXCEPT ![t] = SkippedTask(@)]
              /\ Record(Done("skipTask", u, tasks[t].propertyId, t, NoId))

\* Variant of DeleteTask that deletes the tasks created from the task as well
DeleteTaskCascading ==
  \E t \in TaskIds, u \in Callers :
    /\ UNCHANGED clientVars
    /\ UNCHANGED <<properties, nextPropId, nextTaskId, successors>>
    /\ IF ~checkTaskAccess(u, t).canDelete
         THEN /\ UNCHANGED tasks
              /\ Record(Thrown("PermissionDenied"))
         ELSE /\ tasks' = [q \in (DOMAIN tasks) \ ({t} \cup successors[t]) |-> tasks[q]]
              /\ Record(Done("deleteTask", u, tasks[t].propertyId, t, NoId))

\* Variant of DeleteTask that deletes the document before it checks
DeleteTaskThenCheck ==
  \E t \in TaskIds, u \in Callers :
    /\ UNCHANGED clientVars
    /\ UNCHANGED <<properties, nextPropId, nextTaskId, successors>>
    /\ tasks' = RemoveDoc(tasks, t)
    /\ IF ~checkTaskAccess(u, t).canDelete
         THEN Record(Thrown("PermissionDenied"))
         ELSE Record(Done("deleteTask", u, tasks[t].propertyId, t, NoId))

deleteTaskResult(t, u) ==
  IF ~checkTaskAccess(u, t).canDelete THEN "PermissionDenied" ELSE "ok"

\* deleteTask(id, userId)
DeleteTask ==
  \E t \in TaskIds, u \in Callers :
    /\ UNCHANGED clientVars
    /\ UNCHANGED <<properties, nextPropId, nextTaskId, successors>>
    /\ IF deleteTaskResult(t, u) # "ok"
         THEN /\ UNCHANGED tasks
              /\ Record(Thrown(deleteTaskResult(t, u)))
         ELSE /\ tasks' = RemoveDoc(tasks, t)
              /\ Record(Done("deleteTask", u, tasks[t].propertyId, t, NoId))

\* tasks.sort by dueDate.getTime(): the ids of S in ascending due date; the
\* sort is stable, so equal dates keep the order of the snapshot (by id)
RECURSIVE SortByDueDate(_, _)
SortByDueDate(ts, S) ==
  IF S = {} THEN <<>>
  ELSE LET first == CHOOSE t \in S : \A o \in S :
                      \/ DateKey(ts[t].dueDate) < DateKey(ts[o].dueDate)
                      \/ /\ DateKey(ts[t].dueDate) = DateKey(ts[o].dueDate)
                         /\ t <= o
       IN <<first>> \o SortByDueDate(ts, S \ {first})

getTasksByPropertyResult(p, u) ==
  IF ~getUserTaskPermissions(u, p).canView THEN "PermissionDenied" ELSE "ok"

\* getTasksByProperty(propertyId, userId): the tasks of the property, sorted
TasksByProperty(p) ==
  SortByDueDate(tasks, {t \in DOMAIN tasks : tasks[t].propertyId = p})

GetTasksByProperty ==
  \E p \in DOMAIN TaskRegistry, u \in Callers :
    /\ UNCHANGED clientVars
    /\ UNCHANGED <<properties, tasks, nextPropId, nextTaskId, successors>>
    /\ IF getTasksByPropertyResult(p, u) # "ok"
         THEN Record(Thrown(getTasksByPropertyResult(p, u)))
         ELSE Record(Read("getTasksByProperty", u, p, TasksByProperty(p)))

\* createRecurringTask: the TaskInput built from the stored original
SuccessorInput(task) ==
  [propertyId |-> task.propertyId,
   title |-> task.title,
   description |-> task.description,
   dueDate |-> NextDueDate(task.dueDate, task.recurrence),
   recurrence |-> task.recurrence,
   seasonal |-> task.seasonal,
   geolocated |-> task.geolocated,
   source |-> task.source]

\* createRecurringTask(originalTaskId, userId) on the task collection ts:
\* "ok" or the Error thrown, in the order of the code
createRecurringTaskResultIn(ts, t, u) ==
  IF getTaskByIdResultIn(ts, t, u) = "PermissionDenied" THEN "PermissionDenied"
  ELSE IF getTaskByIdResultIn(ts, t, u) = "null" THEN "NotRecurring"
  ELSE IF ts[t].recurrence = NoRecurrence THEN "NotRecurring"
  ELSE IF ~getUserTaskPermissions(u, ts[t].propertyId).canCreate THEN "PermissionDenied"
  ELSE IF ts[t].recurrence.freq \notin SupportedFreqs THEN "UnsupportedRecurrence"
  ELSE addTaskResult(SuccessorInput(ts[t]), u)

\* completeAndCreateNext(taskId, userId): completeTask, then getTaskById,
\* then createRecurringTask when the task read back has a recurrence.  An
\* Error of the later steps leaves the write of completeTask in place.
CompleteAndCreateNext ==
  \E t \in TaskIds, u \in Callers :
    LET completed == [tasks EXCEPT ![t] = CompletedTask(@, u)]
    IN
    /\ UNCHANGED clientVars
    /\ UNCHANGED <<properties, nextPropId>>
    /\ IF completeTaskResult(t, u) # "ok"
         THEN /\ UNCHANGED <<tasks, nextTaskId, successors>>
              /\ Record(Thrown(completeTaskResult(t, u)))
       ELSE IF getTaskByIdResultIn(completed, t, u) = "PermissionDenied"
         THEN /\ tasks' = completed
              /\ Record(Failed("completeAndCreateNext", u, tasks[t].propertyId, t,
                               "PermissionDenied"))
              /\ UNCHANGED <<nextTaskId, successors>>
       ELSE IF \/ getTaskByIdResultIn(completed, t, u) = "null"
               \/ completed[t].recurrence = NoRecurrence
         THEN /\ tasks' = completed
              /\ Record(Done("completeAndCreateNext", u, tasks[t].propertyId, t, NoId))
              /\ UNCHANGED <<nextTaskId, successors>>
       ELSE IF createRecurringTaskResultIn(completed, t, u) # "ok"
         THEN /\ tasks' = completed
              /\ Record(Failed("completeAndCreateNext", u, tasks[t].propertyId, t,
                               createRecurringTaskResultIn(completed, t, u)))
              /\ UNCHANGED <<nextTaskId, successors>>
       ELSE /\ nextTaskId <= MaxTasks
            /\ tasks' = completed @@
                 (nextTaskId :> NewTask(SuccessorInput(completed[t])))
            /\ nextTaskId' = nextTaskId + 1
            /\ successors' = [successors @@ (nextTaskId :> {})
                                EXCEPT ![t] = @ \cup {nextTaskId}]
            /\ Record(Done("completeAndCreateNext", u, tasks[t].propertyId, t,
                           nextTaskId))

\* --------------------------------------- specification of the task ledger
Init ==
  /\ properties = TaskRegistry
  /\ tasks = << >>
  /\ nextPropId = 3
  /\ users = << >>
  /\ inflight = << >>
  /\ cache = << >>
  /\ nextTaskId = 1
  /\ successors = << >>
  /\ last = Done("init", NoUser, NoId, NoId, NoId)

Next ==
  \/ AddTask
  \/ UpdateTask
  \/ CompleteTask
  \/ ReopenTask
  \/ SkipTask
  \/ DeleteTask
  \/ CompleteAndCreateNext
  \/ GetTasksByProperty

Spec == Init /\ [][Next]_vars

\* ------------------------------- specification of the recurrence sequence
\* The due dates and recurrences of the tasks the sequence is run on: the
\* dates of the documented examples, the days 29, 30 and 31, a leap day and
\* a year end; every frequency of the switch and one it does not know.
RecurrenceDates ==
  { Date(2024, 0, 15), Date(2024, 0, 25), Date(2024, 0, 31), Date(2024, 1, 29),
    Date(2024, 2, 1), Date(2023, 10, 30), Date(2023, 11, 31) }

RecurrenceRules ==
  { Recurrence("monthly", 1), Recurrence("monthly", 13),
    Recurrence("custom", 10), Recurrence("custom", 40),
    Recurrence("yearly", 1), Recurrence("weekly", 1) }

RecurrenceInputs ==
  { [propertyId |-> 1, title |-> <<"a">>, dueDate |-> due, recurrence |-> rec] :
      due \in RecurrenceDates, rec \in RecurrenceRules }

\* updateTask(id, { title: ' ' }, userId): the function of UpdateTask with a
\* patch that blanks the title, which addTask would have rejected
BlankPatches == { [title |-> <<" ">>] }

UpdateTaskBlank ==
  \E t \in TaskIds, patch \in BlankPatches, u \in Callers :
    /\ UNCHANGED clientVars
    /\ UNCHANGED <<properties, nextPropId, nextTaskId, successors>>
    /\ IF updateTaskResult(t, u) # "ok"
         THEN /\ UNCHANGED tasks
              /\ Record(Thrown(updateTaskResult(t, u)))
         ELSE /\ tasks' = [tasks EXCEPT ![t] = ApplyPatch(@, patch)]
              /\ Record(Done("updateTask", u, tasks[t].propertyId, t, NoId))

\* The state after A has added one recurring task to property 1
InitRecurrence ==
  /\ properties = TaskRegistry
  /\ \E data \in RecurrenceInputs : tasks = (1 :> NewTask(data))
  /\ nextPropId = 3
  /\ users = << >>
  /\ inflight = << >>
  /\ cache = << >>
  /\ nextTaskId = 2
  /\ successors = (1 :> {})
  /\ last = [Done("addTask", "A", 1, 1, 1) EXCEPT !.changed = TRUE]

NextRecurrence ==
  \/ CompleteAndCreateNext
  \/ UpdateTaskBlank

SpecRecurrence == InitRecurrence /\ [][NextRecurrence]_vars

\* ------------------------------------ specification of the status changes
\* The state after one of the callers has added a task: A the recurring
\* task of property 1 or B the task of property 2
InitLifecycle ==
  /\ properties = TaskRegistry
  /\ \E data \in TaskInputs, u \in Callers :
       /\ addTaskResultIn(TaskRegistry, data, u) = "ok"
       /\ tasks = (1 :> NewTask(data))
       /\ last = [Done("addTask", u, data.propertyId, 1, 1) EXCEPT !.changed = TRUE]
  /\ nextPropId = 3
  /\ users = << >>
  /\ inflight = << >>
  /\ cache = << >>
  /\ nextTaskId = 2
  /\ successors = (1 :> {})

NextLifecycle ==
  \/ AddTask
  \/ CompleteAndCreateNext
  \/ CompleteTask
  \/ ReopenTask
  \/ SkipTask

SpecLifecycle == InitLifecycle /\ [][NextLifecycle]_vars

\* ---------------------------- specification of the single-record mutations
\* The registry of the task ledger with no task yet; the calls are the
\* mutations of both services that check a permission or validate.
InitFailFast ==
  /\ properties = TaskRegistry
  /\ tasks = << >>
  /\ nextPropId = 3
  /\ users = << >>
  /\ inflight = << >>
  /\ cache = << >>
  /\ nextTaskId = 1
  /\ successors = << >>
  /\ last = Done("init", NoUser, NoId, NoId, NoId)

NextFailFast ==
  \/ UpdateProperty
  \/ DeleteProperty
  \/ ShareProperty
  \/ AddTask
  \/ UpdateTask
  \/ CompleteTask
  \/ SkipTask
  \/ ReopenTask
  \/ DeleteTask

SpecFailFast == InitFailFast /\ [][NextFailFast]_vars

\* ------------------------------------------- specification of the readers
\* The propertyIds arrays callers pass to the bulk readers: empty, one id,
\* both ids in either order, and an array with an id that is not stored
PropertyIdLists == { <<>>, <<1>>, <<2>>, <<1, 2>>, <<2, 1>>, <<1, 3>> }

\* The values of `new Date()` at the calls, as calendar days: before every
\* due date of TaskInputs and after every one of them
Nows == { Date(2024, 0, 10), Date(2024, 2, 10) }

\* getUpcomingTasks(propertyIds, userId, days = 7)
DefaultDays == 7

\* Variant of AccessibleProperties without the permission filter
AccessiblePropertiesUnfiltered(ids, u) == ids

\* The loop that fills accessibleProperties
AccessibleProperties(ids, u) ==
  SelectSeq(ids, LAMBDA p : getUserTaskPermissions(u, p).canView)

\* getDocs of where("propertyId", "in", ps): the documents in the order of
\* their ids, which is the order of a query without orderBy
Snapshot(ps) ==
  SelectSeq([i \in 1..MaxTasks |-> i],
            LAMBDA t : /\ t \in DOMAIN tasks
                       /\ \E i \in 1..Len(ps) : ps[i] = tasks[t].propertyId)

\* The documents every bulk reader starts from; [] when the array or the
\* accessible part of it is empty
AccessibleSnapshot(ids, u) ==
  IF ids = <<>> THEN <<>>
  ELSE IF AccessibleProperties(ids, u) = <<>> THEN <<>>
  ELSE Snapshot(AccessibleProperties(ids, u))

SeqRange(sq) == { sq[i] : i \in 1..Len(sq) }

\* getTasksByUser(userId, properties): sorted by due date
getTasksByUserResult(ids, u) ==
  SortByDueDate(tasks, SeqRange(AccessibleSnapshot(ids, u)))

\* getOverdueTasks(propertyIds, userId): filtered, in the order of the snapshot
getOverdueTasksResult(ids, u, now) ==
  SelectSeq(AccessibleSnapshot(ids, u),
            LAMBDA t : /\ tasks[t].status = "pending"
                       /\ DateKey(tasks[t].dueDate) < DateKey(now))

\* futureDate.setDate(now.getDate() + days)
FutureDate(now, days) == NormalizeDate(now.y, now.m, now.d + days)

\* getUpcomingTasks(propertyIds, userId, days): filtered, then sorted
getUpcomingTasksResult(ids, u, now, days) ==
  SortByDueDate(tasks,
    { t \in SeqRange(AccessibleSnapshot(ids, u)) :
        /\ tasks[t].status = "pending"
        /\ DateKey(tasks[t].dueDate) >= DateKey(now)
        /\ DateKey(tasks[t].dueDate) <= DateKey(FutureDate(now, days)) })

\* getSeasonalTasks(propertyIds, userId): filtered, in the order of the snapshot
getSeasonalTasksResult(ids, u) ==
  SelectSeq(AccessibleSnapshot(ids, u), LAMBDA t : tasks[t].seasonal = TRUE)

\* Array.prototype.slice(0, n)
Slice(sq, n) == SubSeq(sq, 1, IF Len(sq) < n THEN Len(sq) ELSE n)

\* getTasksSummary(propertyIds, userId)
getTasksSummaryResult(ids, u, now) ==
  [overdue |-> Len(getOverdueTasksResult(ids, u, now)),
   upcoming |-> Len(getUpcomingTasksResult(ids, u, now, DefaultDays)),
   seasonal |-> Len(getSeasonalTasksResult(ids, u)),
   overdueTasksPreview |-> Slice(getOverdueTasksResult(ids, u, now), 3),
   upcomingTasksPreview |-> Slice(getUpcomingTasksResult(ids, u, now, DefaultDays), 5)]

\* The record of a call of a bulk reader: the array and the clock it was
\* given, the array it returned and, for getTasksSummary, the summary
Asked(op, u, ids, now, returned, summary) ==
  [op |-> op, user |-> u, pid |-> NoId, tid |-> NoId,
   result |-> "ok", created |-> NoId, returned |-> returned,
   changed |-> FALSE, propertyIds |-> ids, now |-> now, summary |-> summary]

NoSummary == [overdue |-> 0, upcoming |-> 0, seasonal |-> 0,
              overdueTasksPreview |-> <<>>, upcomingTasksPreview |-> <<>>]

GetTasksByUser ==
  \E ids \in PropertyIdLists, u \in Callers, now \in Nows :
    /\ UNCHANGED clientVars
    /\ UNCHANGED <<properties, tasks, nextPropId, nextTaskId, successors>>
    /\ Record(Asked("getTasksByUser", u, ids, now,
                    getTasksByUserResult(ids, u), NoSummary))

GetOverdueTasks ==
  \E ids \in PropertyIdLists, u \in Callers, now \in Nows :
    /\ UNCHANGED clientVars
    /\ UNCHANGED <<properties, tasks, nextPropId, nextTaskId, successors>>
    /\ Record(Asked("getOverdueTasks", u, ids, now,
                    getOverdueTasksResult(ids, u, now), NoSummary))

GetUpcomingTasks ==
  \E ids \in PropertyIdLists, u \in Callers, now \in Nows :
    /\ UNCHANGED clientVars
    /\ UNCHANGED <<properties, tasks, nextPropId, nextTaskId, successors>>
    /\ Record(Asked("getUpcomingTasks", u, ids, now,
                    getUpcomingTasksResult(ids, u, now, DefaultDays), NoSummary))

GetSeasonalTasks ==
  \E ids \in PropertyIdLists, u \in Callers, now \in Nows :
    /\ UNCHANGED clientVars
    /\ UNCHANGED <<properties, tasks, nextPropId, nextTaskId, successors>>
    /\ Record(Asked("getSeasonalTasks", u, ids, now,
                    getSeasonalTasksResult(ids, u), NoSummary))

GetTasksSummary ==
  \E ids \in PropertyIdLists, u \in Callers, now \in Nows :
    /\ UNCHANGED clientVars
    /\ UNCHANGED <<properties, tasks, nextPropId, nextTaskId, successors>>
    /\ Record(Asked("getTasksSummary", u, ids, now, <<>>,
                    getTasksSummaryResult(ids, u, now)))

InitReaders ==
  /\ properties = TaskRegistry
  /\ tasks = << >>
  /\ nextPropId = 3
  /\ users = << >>
  /\ inflight = << >>
  /\ cache = << >>
  /\ nextTaskId = 1
  /\ successors = << >>
  /\ last = Done("init", NoUser, NoId, NoId, NoId)

NextReaders ==
  \/ AddTask
  \/ CompleteTask
  \/ GetTasksByProperty
  \/ GetTasksByUser
  \/ GetOverdueTasks
  \/ GetUpcomingTasks
  \/ GetSeasonalTasks
  \/ GetTasksSummary

SpecReaders == InitReaders /\ [][NextReaders]_vars

\* ----------------------------------------- specification of the deletions
\* The calls that create and delete documents, from the two shared
\* properties with no task yet
InitDeletion ==
  /\ properties = TaskRegistry
  /\ tasks = << >>
  /\ nextPropId = 3
  /\ users = << >>
  /\ inflight = << >>
  /\ cache = << >>
  /\ nextTaskId = 1
  /\ successors = << >>
  /\ last = Done("init", NoUser, NoId, NoId, NoId)

NextDeletion ==
  \/ AddTask
  \/ CompleteAndCreateNext
  \/ DeleteTask
  \/ DeleteProperty

SpecDeletion == InitDeletion /\ [][NextDeletion]_vars

\* ------------------------------------------- specification of the sign-in
\* AuthService and UserService.  The principal that signs in, the profile
\* the provider returns for it and the relationships callers add.
AuthUid == "A"

SignInInput ==
  [uid |-> AuthUid, displayName |-> <<"a">>, role |-> "owner",
   linkedProperties |-> <<>>, relationships |-> <<>>]

RelationshipLabels == { <<"m">> }

\* createUser(data): the document setDoc writes; setDoc replaces a document
\* that is already stored
CreatedUser(data) ==
  [displayName |-> data.displayName,
   role |-> Opt(data, "role", "owner"),
   linkedProperties |-> Opt(data, "linkedProperties", <<>>),
   relationships |-> Opt(data, "relationships", <<>>)]

\* getUserById(uid) !== null
UserExists(uid) == uid \in DOMAIN users

\* signInWithPopup resolves: signInWithGoogle goes on to its getUserById and
\* the auth state listener is called with the user
SignInWithPopup ==
  /\ inflight = << >>
  /\ inflight' = ("signInWithGoogle" :> [pc |-> "getUserById", found |-> FALSE]) @@
                 ("onAuthStateChanged" :> [pc |-> "getUserById", found |-> FALSE])
  /\ last' = Done("signInWithPopup", AuthUid, NoId, NoId, NoId)
  /\ UNCHANGED <<properties, tasks, nextPropId, nextTaskId, successors, users, cache>>

\* `const existingUser = await getUserById(user.uid)` of either function
GetUserByIdForSignIn ==
  \E c \in DOMAIN inflight :
    /\ inflight[c].pc = "getUserById"
    /\ inflight' = [inflight EXCEPT ![c] = [pc |-> "write", found |-> UserExists(AuthUid)]]
    /\ last' = Done("getUserById", AuthUid, NoId, NoId, NoId)
    /\ UNCHANGED <<properties, tasks, nextPropId, nextTaskId, successors, users, cache>>

\* signInWithGoogle after its read: createUser when nothing was found, else
\* updateUser with the profile fields
SignInWithGoogleWrite ==
  /\ "signInWithGoogle" \in DOMAIN inflight
  /\ inflight["signInWithGoogle"].pc = "write"
  /\ users' = IF inflight["signInWithGoogle"].found
                THEN [users EXCEPT ![AuthUid].displayName = SignInInput.displayName]
                ELSE (AuthUid :> CreatedUser(SignInInput)) @@ users
  /\ inflight' = RemoveDoc(inflight, "signInWithGoogle")
  /\ last' = [Done("signInWithGoogle", AuthUid, NoId, NoId, NoId)
                EXCEPT !.changed = (users' # users)]
  /\ UNCHANGED <<properties, tasks, nextPropId, nextTaskId, successors, cache>>

\* The listener after its read: createUser when nothing was found; then the
\* callback
OnAuthStateChangedWrite ==
  /\ "onAuthStateChanged" \in DOMAIN inflight
  /\ inflight["onAuthStateChanged"].pc = "write"
  /\ users' = IF inflight["onAuthStateChanged"].found
                THEN users
                ELSE (AuthUid :> CreatedUser(SignInInput)) @@ users
  /\ inflight' = RemoveDoc(inflight, "onAuthStateChanged")
  /\ last' = [Done("onAuthStateChanged", AuthUid, NoId, NoId, NoId)
                EXCEPT !.changed = (users' # users)]
  /\ UNCHANGED <<properties, tasks, nextPropId, nextTaskId, successors, cache>>

\* Array.prototype.includes
Includes(sq, x) == \E i \in 1..Len(sq) : sq[i] = x

\* addPropertyRelationship(uid, propertyId, label): nothing without a user
\* document or with a relationship for the property
AddPropertyRelationship ==
  \E p \in DOMAIN TaskRegistry, label \in RelationshipLabels :
    /\ users' =
         IF ~UserExists(AuthUid) THEN users
         ELSE IF \E i \in 1..Len(users[AuthUid].relationships) :
                   users[AuthUid].relationships[i].propertyId = p
           THEN users
         ELSE [users EXCEPT
                 ![AuthUid].relationships = Append(@, [propertyId |-> p, label |-> label]),
                 ![AuthUid].linkedProperties =
                    IF Includes(@, p) THEN @ ELSE Append(@, p)]
    /\ last' = [Done("addPropertyRelationship", AuthUid, p, NoId, NoId)
                  EXCEPT !.changed = (users' # users)]
    /\ UNCHANGED <<properties, tasks, nextPropId, nextTaskId, successors, inflight, cache>>

InitSignIn ==
  /\ properties = TaskRegistry
  /\ tasks = << >>
  /\ nextPropId = 3
  /\ nextTaskId = 1
  /\ successors = << >>
  /\ users = << >>
  /\ inflight = << >>
  /\ cache = << >>
  /\ last = Done("init", NoUser, NoId, NoId, NoId)

NextSignIn ==
  \/ SignInWithPopup
  \/ GetUserByIdForSignIn
  \/ SignInWithGoogleWrite
  \/ OnAuthStateChangedWrite
  \/ AddPropertyRelationship

SpecSignIn == InitSignIn /\ [][NextSignIn]_vars

\* ---------------------------------- specification of the property listing
\* where(field, "array-contains", el): some element of the array equals el,
\* all fields compared
ArrayContains(sq, el) == \E i \in 1..Len(sq) : sq[i] = el

\* getDocs of a query on "properties": the ids of the matching documents, in
\* the order of the ids
PropertyQuery(matching) ==
  SelectSeq([i \in 1..(nextPropId - 1) |-> i], LAMBDA p : p \in matching)

\* allProperties.filter((property, index, self) =>
\*   index === self.findIndex(p => p.id === property.id))
UniqueById(sq) ==
  SelectSeq([i \in 1..Len(sq) |-> <<i, sq[i]>>],
            LAMBDA e : \A j \in 1..(e[1] - 1) : sq[j] # e[2])

\* getPropertiesByUser(uid): the ids of the properties returned
getPropertiesByUserResult(uid) ==
  LET ownerProperties == PropertyQuery({p \in DOMAIN properties : properties[p].ownerId = uid})
      sharedProperties ==
        PropertyQuery({p \in DOMAIN properties :
                         ArrayContains(properties[p].sharedWith, [userId |-> uid])})
      unique == UniqueById(ownerProperties \o sharedProperties)
  IN [i \in 1..Len(unique) |-> unique[i][2]]

GetPropertiesByUser ==
  \E u \in Users :
    /\ UNCHANGED clientVars
    /\ UNCHANGED <<properties, tasks, nextPropId, nextTaskId, successors>>
    /\ Record(Read("getPropertiesByUser", u, NoId, getPropertiesByUserResult(u)))

NextListing ==
  \/ AddProperty
  \/ ShareProperty
  \/ GetPropertiesByUser

SpecListing == InitRegistry /\ [][NextListing]_vars

\* ------------------------------------ specification of the cached queries
\* The hooks of one client.  currentUser is A, the owner of property 1.
CurrentUser == "A"

\* Query keys are arrays of strings; a document id is its decimal numeral
IdToken(i) == ToString(i)

RECURSIVE IdTokens(_)
IdTokens(ids) ==
  IF ids = <<>> THEN <<>> ELSE <<IdToken(Head(ids))>> \o IdTokens(Tail(ids))

\* taskKeys
TaskKeysAll == <<"tasks">>
TaskKeysUser(u) == TaskKeysAll \o <<"user", u>>
TaskKeysProperty(p) == TaskKeysAll \o <<"property", IdToken(p)>>
TaskKeysTask(t) == TaskKeysAll \o <<"task", IdToken(t)>>
TaskKeysSummary(u, ids) == TaskKeysAll \o <<"summary", u>> \o IdTokens(ids)

\* The property-id arrays the summary hook is mounted with
SummaryLists == { <<1>>, <<1, 2>>, <<2, 1>> }

\* The queries the client mounts
QueryKeys ==
  {TaskKeysUser(CurrentUser), TaskKeysProperty(1), TaskKeysTask(1)}
    \cup { TaskKeysSummary(CurrentUser, ids) : ids \in SummaryLists }

\* Partial matching of query keys: the filter key is a prefix of the key
IsPrefix(pre, key) ==
  /\ Len(pre) <= Len(key)
  /\ SubSeq(key, 1, Len(pre)) = pre

\* Variant of InvalidateQueries that matches every key of the cache
InvalidateQueriesAll(c, pre) == [k \in DOMAIN c |-> FALSE]

\* queryClient.invalidateQueries({ queryKey }): the matching queries are
\* marked stale.  cache[k] is TRUE while the data of k is fresh.
InvalidateQueries(c, pre) ==
  [k \in DOMAIN c |-> IF IsPrefix(pre, k) THEN FALSE ELSE c[k]]

\* A mounted query without fresh data fetches.  The id of a task is
\* generated by the store, so the task query is mounted for a stored task.
UseQuery ==
  \E k \in QueryKeys :
    /\ ~cache[k]
    /\ \A t \in TaskIds : k = TaskKeysTask(t) => t \in DOMAIN tasks
    /\ cache' = [cache EXCEPT ![k] = TRUE]
    /\ last' = Done("useQuery", CurrentUser, NoId, NoId, NoId)
    /\ UNCHANGED <<properties, tasks, nextPropId, nextTaskId, successors, users, inflight>>

\* useCreateTask: addTask, then onSuccess
UseCreateTask ==
  \E data \in TaskInputs :
    LET u == CurrentUser IN
    /\ UNCHANGED <<properties, nextPropId, users, inflight>>
    /\ IF addTaskResult(data, u) # "ok"
         THEN /\ UNCHANGED <<tasks, nextTaskId, successors, cache>>
              /\ Record(Thrown(addTaskResult(data, u)))
         ELSE /\ nextTaskId <= MaxTasks
              /\ tasks' = tasks @@ (nextTaskId :> NewTask(data))
              /\ nextTaskId' = nextTaskId + 1
              /\ successors' = successors @@ (nextTaskId :> {})
              /\ cache' = InvalidateQueries(
                            InvalidateQueries(
                              InvalidateQueries(cache, TaskKeysUser(u)),
                              TaskKeysProperty(data.propertyId)),
                            TaskKeysSummary(u, <<data.propertyId>>))
              /\ Record(Done("useCreateTask", u, data.propertyId, nextTaskId, nextTaskId))

\* useUpdateTask: updateTask, then onSuccess
UseUpdateTask ==
  \E t \in TaskIds, patch \in TaskPatches :
    LET u == CurrentUser IN
    /\ UNCHANGED <<properties, nextPropId, nextTaskId, successors, users, inflight>>
    /\ IF updateTaskResult(t, u) # "ok"
         THEN /\ UNCHANGED <<tasks, cache>>
              /\ Record(Thrown(updateTaskResult(t, u)))
         ELSE /\ tasks' = [tasks EXCEPT ![t] = ApplyPatch(@, patch)]
              /\ cache' = InvalidateQueries(
                            InvalidateQueries(
                              InvalidateQueries(cache, TaskKeysTask(t)),
                              TaskKeysUser(u)),
                            TaskKeysAll)
              /\ Record(Done("useUpdateTask", u, tasks[t].propertyId, t, NoId))

\* useCompleteTask: completeAndCreateNext or completeTask, then onSuccess;
\* onError puts the cached task back and invalidates nothing
UseCompleteTask ==
  \E t \in TaskIds, isRecurring \in BOOLEAN :
    LET u == CurrentUser
        completed == [tasks EXCEPT ![t] = CompletedTask(@, u)]
    IN
    /\ UNCHANGED <<properties, nextPropId, users, inflight>>
    /\ IF completeTaskResult(t, u) # "ok"
         THEN /\ UNCHANGED <<tasks, nextTaskId, successors, cache>>
              /\ Record(Thrown(completeTaskResult(t, u)))
       ELSE IF ~isRecurring \/ completed[t].recurrence = NoRecurrence
         THEN /\ tasks' = completed
              /\ cache' = InvalidateQueries(cache, TaskKeysAll)
              /\ UNCHANGED <<nextTaskId, successors>>
              /\ Record(Done("useCompleteTask", u, tasks[t].propertyId, t, NoId))
       ELSE IF createRecurringTaskResultIn(completed, t, u) # "ok"
         THEN /\ tasks' = completed
              /\ UNCHANGED <<nextTaskId, successors, cache>>
              /\ Record(Failed("useCompleteTask", u, tasks[t].propertyId, t,
                               createRecurringTaskResultIn(completed, t, u)))
       ELSE /\ nextTaskId <= MaxTasks
            /\ tasks' = completed @@
                 (nextTaskId :> NewTask(SuccessorInput(completed[t])))
            /\ nextTaskId' = nextTaskId + 1
            /\ successors' = [successors @@ (nextTaskId :> {})
                                EXCEPT ![t] = @ \cup {nextTaskId}]
            /\ cache' = InvalidateQueries(cache, TaskKeysAll)
            /\ Record(Done("useCompleteTask", u, tasks[t].propertyId, t, nextTaskId))

\* useSkipTask: skipTask, then onSuccess
UseSkipTask ==
  \E t \in TaskIds :
    LET u == CurrentUser IN
    /\ UNCHANGED <<properties, nextPropId, nextTaskId, successors, users, inflight>>
    /\ IF skipTaskResult(t, u) # "ok"
         THEN /\ UNCHANGED <<tasks, cache>>
              /\ Record(Thrown(skipTaskResult(t, u)))
         ELSE /\ tasks' = [tasks EXCEPT ![t] = SkippedTask(@)]
              /\ cache' = InvalidateQueries(cache, TaskKeysAll)
              /\ Record(Done("useSkipTask", u, tasks[t].propertyId, t, NoId))

\* useReopenTask: reopenTask, then onSuccess
UseReopenTask ==
  \E t \in TaskIds :
    LET u == CurrentUser IN
    /\ UNCHANGED <<properties, nextPropId, nextTaskId, successors, users, inflight>>
    /\ IF reopenTaskResult(t, u) # "ok"
         THEN /\ UNCHANGED <<tasks, cache>>
              /\ Record(Thrown(reopenTaskResult(t, u)))
         ELSE /\ tasks' = [tasks EXCEPT ![t] = ReopenedTask(@)]
              /\ cache' = InvalidateQueries(cache, TaskKeysAll)
              /\ Record(Done("useReopenTask", u, tasks[t].propertyId, t, NoId))

\* useDeleteTask: deleteTask, then onSuccess (removeQueries drops the data
\* of the task query, which is not fresh afterwards)
UseDeleteTask ==
  \E t \in TaskIds :
    LET u == CurrentUser IN
    /\ UNCHANGED <<properties, nextPropId, nextTaskId, successors, users, inflight>>
    /\ IF deleteTaskResult(t, u) # "ok"
         THEN /\ UNCHANGED <<tasks, cache>>
              /\ Record(Thrown(deleteTaskResult(t, u)))
         ELSE /\ tasks' = RemoveDoc(tasks, t)
              /\ cache' = InvalidateQueries(
                            InvalidateQueries(cache, TaskKeysTask(t)), TaskKeysAll)
              /\ Record(Done("useDeleteTask", u, tasks[t].propertyId, t, NoId))

InitCache ==
  /\ properties = TaskRegistry
  /\ tasks = << >>
  /\ nextPropId = 3
  /\ nextTaskId = 1
  /\ successors = << >>
  /\ users = << >>
  /\ inflight = << >>
  /\ cache = [k \in QueryKeys |-> FALSE]
  /\ last = Done("init", NoUser, NoId, NoId, NoId)

NextCache ==
  \/ UseQuery
  \/ UseCreateTask
  \/ UseUpdateTask
  \/ UseCompleteTask
  \/ UseSkipTask
  \/ UseReopenTask
  \/ UseDeleteTask

SpecCache == InitCache /\ [][NextCache]_vars

\* ------------------------------------------ specification of task updates
\* updateTask(id, data, userId) with the fields of Partial<TaskInput> that
\* name the property and the title
UpdatePatches ==
  { [propertyId |-> 1], [propertyId |-> 2],
    [title |-> <<"b">>], [title |-> <<" ">>] }

\* updateTask: the permission is checked on the stored task, then the patch
\* is written as given
UpdateTaskFields ==
  \E t \in TaskIds, patch \in UpdatePatches, u \in Callers :
    /\ UNCHANGED clientVars
    /\ UNCHANGED <<properties, nextPropId, nextTaskId, successors>>
    /\ IF updateTaskResult(t, u) # "ok"
         THEN /\ UNCHANGED tasks
              /\ Record(Thrown(updateTaskResult(t, u)))
         ELSE /\ tasks' = [tasks EXCEPT ![t] = ApplyPatch(@, patch)]
              /\ Record(Done("updateTask", u, tasks[t].propertyId, t, NoId))

NextUpdate ==
  \/ AddTask
  \/ UpdateTaskFields
  \/ CompleteTask
  \/ SkipTask

SpecUpdate == Init /\ [][NextUpdate]_vars

\* --------------------------------------- specification of concurrent calls
\* Calls made at the same time from three sessions: each await of a call is
\* a step of its own, and the steps of different calls interleave.
\* inflight[session] is the call of the session and the await it is at.
ShareSessions == {"share1", "share2"}
TaskSession == "task"

\* Property 1 of A, shared with B as collaborator, with one pending task
RaceRegistry ==
  (1 :> [ownerId |-> "A",
         sharedWith |-> <<Share("B", "collaborator")>>,
         propertyStatus |-> "active"])

RaceTargets == {"B", "C"}

Call(op, pc, u, target, role, sw, t) ==
  [op |-> op, pc |-> pc, user |-> u, target |-> target, role |-> role,
   sharedWith |-> sw, tid |-> t]

Returned(session) ==
  /\ session \in DOMAIN inflight
  /\ inflight[session].pc = "returned"

\* shareProperty up to `await getUserPropertyPermissions`: the check
SharePropertyCheck ==
  \E session \in ShareSessions, target \in RaceTargets, role \in ShareRoles,
     u \in Callers :
    /\ session \notin DOMAIN inflight
    /\ UNCHANGED <<properties, tasks, nextPropId, nextTaskId, successors, users, cache>>
    /\ IF sharePropertyResult(u, 1) # "ok"
         THEN /\ UNCHANGED inflight
              /\ Record(Thrown(sharePropertyResult(u, 1)))
         ELSE /\ inflight' = inflight @@
                   (session :> Call("shareProperty", "read", u, target, role, <<>>, NoId))
              /\ UNCHANGED last

\* shareProperty up to `await getPropertyById`: the list to write is
\* computed from the document that was read
SharePropertyRead ==
  \E session \in ShareSessions :
    /\ session \in DOMAIN inflight
    /\ inflight[session].pc = "read"
    /\ inflight' = [inflight EXCEPT
         ![session].pc = "write",
         ![session].sharedWith =
            UpdatedSharedWith(properties[1].sharedWith,
                              inflight[session].target, inflight[session].role)]
    /\ UNCHANGED <<properties, tasks, nextPropId, nextTaskId, successors, users, cache, last>>

\* shareProperty: `await updateDoc` with the list computed after the read
SharePropertyWrite ==
  \E session \in ShareSessions :
    /\ session \in DOMAIN inflight
    /\ inflight[session].pc = "write"
    /\ properties' = [properties EXCEPT ![1].sharedWith = inflight[session].sharedWith]
    /\ inflight' = [inflight EXCEPT ![session].pc = "returned"]
    /\ UNCHANGED <<tasks, nextPropId, nextTaskId, successors, users, cache>>
    /\ Record(Done("shareProperty", inflight[session].user, 1, NoId, NoId))

\* completeTask up to `await checkTaskAccess`: the check
CompleteTaskCheck ==
  \E t \in TaskIds, u \in Callers :
    /\ TaskSession \notin DOMAIN inflight
    /\ UNCHANGED <<properties, tasks, nextPropId, nextTaskId, successors, users, cache>>
    /\ IF completeTaskResult(t, u) # "ok"
         THEN /\ UNCHANGED inflight
              /\ Record(Thrown(completeTaskResult(t, u)))
         ELSE /\ inflight' = inflight @@
                   (TaskSession :> Call("completeTask", "write", u, NoUser, "none", <<>>, t))
              /\ UNCHANGED last

\* completeTask: `await updateDoc`
CompleteTaskWrite ==
  /\ TaskSession \in DOMAIN inflight
  /\ inflight[TaskSession].pc = "write"
  /\ inflight' = [inflight EXCEPT ![TaskSession].pc = "returned"]
  /\ UNCHANGED <<properties, nextPropId, nextTaskId, successors, users, cache>>
  /\ LET t == inflight[TaskSession].tid
         u == inflight[TaskSession].user
     IN /\ tasks' = [tasks EXCEPT ![t] = CompletedTask(@, u)]
        /\ Record(Done("completeTask", u, tasks[t].propertyId, t, NoId))

InitRace ==
  /\ properties = RaceRegistry
  /\ tasks = (1 :> NewTask([propertyId |-> 1, title |-> <<"a">>,
                            dueDate |-> Date(2024, 0, 15)]))
  /\ nextPropId = 2
  /\ nextTaskId = 2
  /\ successors = (1 :> {})
  /\ users = << >>
  /\ inflight = << >>
  /\ cache = << >>
  /\ last = Done("init", NoUser, NoId, NoId, NoId)

NextRace ==
  \/ SharePropertyCheck
  \/ SharePropertyRead
  \/ SharePropertyWrite
  \/ CompleteTaskCheck
  \/ CompleteTaskWrite

SpecRace == InitRace /\ [][NextRace]_vars

\* ------------------------------- specification of the recurrence interval
\* TaskRecurrence.interval is a number: the rules callers pass include a
\* zero and a negative interval
IntervalRules ==
  { Recurrence(freq, n) : freq \in {"monthly", "custom"}, n \in {-1, 0, 1} }

IntervalInputs ==
  { [propertyId |-> 1, title |-> <<"a">>, dueDate |-> due, recurrence |-> rec] :
      due \in {Date(2024, 0, 31), Date(2024, 2, 1)}, rec \in IntervalRules }

IntervalPatches == { [recurrence |-> rec] : rec \in IntervalRules }

\* addTask(data, userId) with a recurrence rule in data
AddTaskRecurring ==
  \E data \in IntervalInputs, u \in Callers :
    /\ UNCHANGED clientVars
    /\ UNCHANGED <<properties, nextPropId>>
    /\ IF addTaskResult(data, u) # "ok"
         THEN /\ UNCHANGED <<tasks, nextTaskId, successors>>
              /\ Record(Thrown(addTaskResult(data, u)))
         ELSE /\ nextTaskId <= MaxTasks
              /\ tasks' = tasks @@ (nextTaskId :> NewTask(data))
              /\ nextTaskId' = nextTaskId + 1
              /\ successors' = successors @@ (nextTaskId :> {})
              /\ Record(Done("addTask", u, data.propertyId, nextTaskId, nextTaskId))

\* updateTask(id, { recurrence }, userId)
UpdateTaskRecurrence ==
  \E t \in TaskIds, patch \in IntervalPatches, u \in Callers :
    /\ UNCHANGED clientVars
    /\ UNCHANGED <<properties, nextPropId, nextTaskId, successors>>
    /\ IF updateTaskResult(t, u) # "ok"
         THEN /\ UNCHANGED tasks
              /\ Record(Thrown(updateTaskResult(t, u)))
         ELSE /\ tasks' = [tasks EXCEPT ![t] = ApplyPatch(@, patch)]
              /\ Record(Done("updateTask", u, tasks[t].propertyId, t, NoId))

NextInterval ==
  \/ AddTaskRecurring
  \/ UpdateTaskRecurrence
  \/ CompleteAndCreateNext

SpecInterval == Init /\ [][NextInterval]_vars

\* ================================================================== claims

\* The relation of user u to the stored property p, read off the document:
\* owner, else the role of u's first sharedWith entry, else none.
SharesOf(p, u) ==
  {i \in 1..Len(properties[p].sharedWith) : properties[p].sharedWith[i].userId = u}

RelationOf(u, p) ==
  IF p \notin DOMAIN properties THEN "none"
  ELSE IF properties[p].ownerId = u THEN "owner"
  ELSE IF SharesOf(p, u) = {} THEN "none"
  ELSE properties[p].sharedWith[CHOOSE i \in SharesOf(p, u) :
                                  \A j \in SharesOf(p, u) : i <= j].role

\* The ids the registry is asked about: the stored ones, deleted ones and
\* one that was never handed out
AskedPropIds == PropIds \cup {nextPropId}

\* C1: getUserPropertyPermissions(U, P) is owner with all four capabilities
\* exactly when P.ownerId = U, whatever sharedWith holds; a non-owner gets
\* collaborator {view, edit}, viewer {view} by its sharedWith entry, and all
\* false / none without an entry or when P does not exist.
C1_PermissionsFollowRelation ==
  \A p \in AskedPropIds, u \in Users :
    LET perm == getUserPropertyPermissions(u, p)
        all == perm.canView /\ perm.canEdit /\ perm.canDelete /\ perm.canShare
    IN /\ p \in DOMAIN properties =>
            ((perm.role = "owner" /\ all) <=> properties[p].ownerId = u)
       /\ perm.role = RelationOf(u, p)
       /\ perm.role = "owner" => all
       /\ perm.role = "collaborator" =>
            perm.canView /\ perm.canEdit /\ ~perm.canDelete /\ ~perm.canShare
       /\ perm.role = "viewer" =>
            perm.canView /\ ~perm.canEdit /\ ~perm.canDelete /\ ~perm.canShare
       /\ perm.role = "none" =>
            ~perm.canView /\ ~perm.canEdit /\ ~perm.canDelete /\ ~perm.canShare

\* C1 witness: a stored property whose owner also has a sharedWith entry and
\* is resolved as owner.
C1_OwnerAlsoShared ==
  \E p \in DOMAIN properties :
    /\ SharesOf(p, properties[p].ownerId) # {}
    /\ getUserPropertyPermissions(properties[p].ownerId, p).role = "owner"

\* C4 (as claimed): every stored sharedWith list holds at most one entry per
\* userId.
C4_AtMostOneSharePerUser ==
  \A p \in DOMAIN properties : \A u \in Users : Cardinality(SharesOf(p, u)) <= 1

\* C5: no step changes the ownerId of a stored property (ids are never
\* reused, so the ownerId is always the one addProperty wrote).
C5_OwnerIdNeverChanges ==
  [][\A p \in (DOMAIN properties) \cap (DOMAIN properties') :
       properties'[p].ownerId = properties[p].ownerId]_vars

\* C5 witness: an updateProperty whose patch named another ownerId was
\* applied (only that patch writes the status 'archived') and the owner is
\* not the one of the patch.
C5_OwnerPatchApplied ==
  \E p \in DOMAIN properties :
    /\ properties[p].propertyStatus = "archived"
    /\ properties[p].ownerId # "B"

\* C6 (as claimed): a stored property changes only in a call made by its
\* owner or by a collaborator.
C6_MutatedOnlyByOwnerOrCollaborator ==
  [][\A p \in (DOMAIN properties) \cap (DOMAIN properties') :
       properties'[p] # properties[p] =>
         RelationOf(last'.user, p) \in {"owner", "collaborator"}]_vars

\* C7: deleteProperty(id, userId) goes through exactly when userId is the
\* owner of the stored property: for every other user (collaborator,
\* viewer, unrelated) and for an id that is not stored it throws the
\* permission error.  A deleteProperty that returned has removed the
\* property, and a call that threw the permission error left every stored
\* property as it was.
C7_DeleteOnlyByOwner ==
  /\ \A p \in AskedPropIds, u \in Users :
       deletePropertyResult(u, p) =
         IF RelationOf(u, p) = "owner" THEN "ok" ELSE "PermissionDenied"
  /\ last.op = "deleteProperty" =>
       /\ last.result = "ok"
       /\ last.changed
       /\ last.pid \notin DOMAIN properties
  /\ last.result = "PermissionDenied" => ~last.changed

\* C7 witness: a deleteProperty has returned and the property is gone.
C7_PropertyDeleted ==
  /\ last.op = "deleteProperty"
  /\ last.result = "ok"
  /\ last.pid \notin DOMAIN properties

\* C8: getUserTaskPermissions(U, P) grants canView to owner, collaborator and
\* viewer, canEdit / canCreate / canDelete to owner and collaborator only, and
\* nothing when P is not stored or U has no relation; its canView equals the
\* canView of getUserPropertyPermissions.
C8_TaskPermissionsFollowRelation ==
  \A p \in AskedPropIds, u \in Users :
    LET perm == getUserTaskPermissions(u, p)
        writes == RelationOf(u, p) \in {"owner", "collaborator"}
    IN /\ perm.canView = (RelationOf(u, p) \in {"owner", "collaborator", "viewer"})
       /\ perm.canEdit = writes
       /\ perm.canCreate = writes
       /\ perm.canDelete = writes
       /\ RelationOf(u, p) = "none" => perm = NoneTaskPermissions
       /\ perm.canView = getUserPropertyPermissions(u, p).canView

\* C8 witness: some user is a viewer of a stored property and some user a
\* collaborator.
C8_ViewerAndCollaborator ==
  \E p \in DOMAIN properties, q \in DOMAIN properties, u \in Users, v \in Users :
    /\ getUserTaskPermissions(u, p).role = "viewer"
    /\ getUserTaskPermissions(v, q).role = "collaborator"

\* C2 (as claimed): completedBy is set exactly on the completed tasks.
C2_CompletedByIffCompleted ==
  \A t \in DOMAIN tasks :
    (tasks[t].completedBy # NoUser) <=> (tasks[t].status = "completed")

\* C3 (as claimed): a recurring task in status completed has exactly one
\* successor created from it (the original itself is stored).
C3_ExactlyOneSuccessor ==
  \A t \in DOMAIN tasks :
    tasks[t].recurrence # NoRecurrence /\ tasks[t].status = "completed" =>
      Cardinality(successors[t]) = 1

\* u's only relation to the stored property p is a viewer share
ViewerOnly(u, p) ==
  /\ p \in DOMAIN properties
  /\ properties[p].ownerId # u
  /\ SharesOf(p, u) # {}
  /\ \A i \in SharesOf(p, u) : properties[p].sharedWith[i].role = "viewer"

TaskMutations ==
  {"addTask", "updateTask", "completeTask", "skipTask", "reopenTask",
   "deleteTask", "completeAndCreateNext"}

\* C9: while a user's only relation to property P is a viewer share, the
\* user can list P's tasks, every task mutation the user issues on P or on a
\* task of P (successors of recurring tasks included) throws the permission
\* error, no mutation that got past its permission check was issued by the
\* user on P, and a call that threw the permission error left the stored
\* documents as they were.
C9_ViewerReadsButNeverWrites ==
  /\ \A u \in Users, p \in DOMAIN properties :
       ViewerOnly(u, p) =>
         /\ getTasksByPropertyResult(p, u) = "ok"
         /\ \A data \in TaskInputs :
              Opt(data, "propertyId", NoId) = p =>
                addTaskResult(data, u) = "PermissionDenied"
         /\ \A t \in DOMAIN tasks :
              tasks[t].propertyId = p =>
                /\ updateTaskResult(t, u) = "PermissionDenied"
                /\ completeTaskResult(t, u) = "PermissionDenied"
                /\ skipTaskResult(t, u) = "PermissionDenied"
                /\ reopenTaskResult(t, u) = "PermissionDenied"
                /\ deleteTaskResult(t, u) = "PermissionDenied"
         /\ last.op \in TaskMutations /\ last.user = u => last.pid # p
  /\ last.result = "PermissionDenied" => ~last.changed

\* C9 witness: B, a viewer of the property, has listed its tasks and the
\* list holds a successor created by recurrence.
C9_ViewerListedSuccessor ==
  /\ last.op = "getTasksByProperty"
  /\ last.user = "B"
  /\ ViewerOnly("B", last.pid)
  /\ \E i \in 1..Len(last.returned) : \E t \in DOMAIN successors :
       last.returned[i] \in successors[t]

\* C10 (as claimed): after completeAndCreateNext(id, u) returned on a pending
\* recurring task, the original is completed by u and the successor is
\* pending, has no completedBy and has the propertyId, title, description,
\* recurrence, source, seasonal and geolocated values of the original.
C10_SuccessorCopiesOriginal ==
  [][(/\ last'.op = "completeAndCreateNext"
      /\ last'.result = "ok"
      /\ last'.tid \in DOMAIN tasks
      /\ tasks[last'.tid].status = "pending"
      /\ tasks[last'.tid].recurrence # NoRecurrence)
     => /\ last'.created \in DOMAIN tasks'
        /\ LET original == tasks'[last'.tid]
               successor == tasks'[last'.created]
           IN /\ original.status = "completed"
              /\ original.completedBy = last'.user
              /\ successor.status = "pending"
              /\ successor.completedBy = NoUser
              /\ successor.propertyId = original.propertyId
              /\ successor.title = original.title
              /\ successor.description = original.description
              /\ successor.recurrence = original.recurrence
              /\ successor.source = original.source
              /\ successor.seasonal = original.seasonal
              /\ successor.geolocated = original.geolocated]_vars

\* ------------------------------------------------------- calendar, by table
\* Lengths of the months of year y, January first
MonthLengths(y) ==
  <<31, IF (y % 4 = 0 /\ y % 100 # 0) \/ y % 400 = 0 THEN 29 ELSE 28, 31, 30, 31,
    30, 31, 31, 30, 31, 30, 31>>

\* Days of a common year before month m (0 is January)
CommonYearDaysBefore == <<0, 31, 59, 90, 120, 151, 181, 212, 243, 273, 304, 334>>

DaysBeforeMonth(y, m) ==
  CommonYearDaysBefore[m + 1] + (IF m >= 2 /\ MonthLengths(y)[2] = 29 THEN 1 ELSE 0)

\* Days from 2020-01-01 to the first day of year y
RECURSIVE DaysBeforeYear(_)
DaysBeforeYear(y) ==
  IF y <= 2020 THEN 0
  ELSE DaysBeforeYear(y - 1) + 337 + MonthLengths(y - 1)[2]

\* The number of the day dt, counted from 2020-01-01
DayNumber(dt) == DaysBeforeYear(dt.y) + DaysBeforeMonth(dt.y, dt.m) + dt.d

\* The month n months after the month of dt, as [y, m]
MonthAfter(dt, n) ==
  [y |-> (dt.y * 12 + dt.m + n) \div 12, m |-> (dt.y * 12 + dt.m + n) % 12]

\* The pairs (original, successor) of the stored tasks
Successions ==
  {<<t, s>> \in (DOMAIN tasks) \X (DOMAIN tasks) : s \in successors[t]}

\* C11 (as claimed): the successor of a monthly task is due on the same
\* day-of-month, n calendar months after the original.
C11_MonthlySameDayOfMonth ==
  \A pair \in Successions :
    LET original == tasks[pair[1]]
        target == MonthAfter(original.dueDate, original.recurrence.interval)
    IN original.recurrence.freq = "monthly" =>
         tasks[pair[2]].dueDate = Date(target.y, target.m, original.dueDate.d)

\* C11 (amended): the successor of a monthly task due on day d is due d - 1
\* days after the first day of the month n calendar months later: on the
\* same day-of-month when that month has a day d, and otherwise as many
\* days into the following month as d exceeds the month's length.
C11_MonthlyRollsOver ==
  \A pair \in Successions :
    LET original == tasks[pair[1]]
        due == tasks[pair[2]].dueDate
        target == MonthAfter(original.dueDate, original.recurrence.interval)
        len == MonthLengths(target.y)[target.m + 1]
        d == original.dueDate.d
    IN original.recurrence.freq = "monthly" =>
         /\ DayNumber(due) = DayNumber(Date(target.y, target.m, 1)) + d - 1
         /\ d <= len => due = Date(target.y, target.m, d)
         /\ d > len => due = Date(MonthAfter(original.dueDate,
                                             original.recurrence.interval + 1).y,
                                  MonthAfter(original.dueDate,
                                             original.recurrence.interval + 1).m,
                                  d - len)

\* C11 witness: the task due 2024-01-31 with monthly interval 1 has a
\* successor, due 2024-03-02; the one due 2024-01-15 has one due 2024-02-15.
C11_RolledOverFebruary ==
  /\ \E pair \in Successions :
       /\ tasks[pair[1]].dueDate = Date(2024, 0, 31)
       /\ tasks[pair[1]].recurrence = Recurrence("monthly", 1)
       /\ tasks[pair[2]].dueDate = Date(2024, 2, 2)

\* C12: the successor of a custom task is due exactly n days after the
\* original, across month and year ends (2024-01-25 and n = 10 give
\* 2024-02-04).
C12_CustomAddsDays ==
  \A pair \in Successions :
    LET original == tasks[pair[1]]
        due == tasks[pair[2]].dueDate
    IN original.recurrence.freq = "custom" =>
         /\ DayNumber(due) = DayNumber(original.dueDate) + original.recurrence.interval
         /\ due.m \in 0..11
         /\ due.d \in 1..MonthLengths(due.y)[due.m + 1]
         /\ (original.dueDate = Date(2024, 0, 25) /\ original.recurrence.interval = 10)
              => due = Date(2024, 1, 4)

\* C12 witness: the task due 2023-12-31 with custom interval 40 has a
\* successor, due in February of the next year.
C12_CarriedAcrossYearEnd ==
  \E pair \in Successions :
    /\ tasks[pair[1]].dueDate = Date(2023, 11, 31)
    /\ tasks[pair[1]].recurrence = Recurrence("custom", 40)
    /\ tasks[pair[2]].dueDate = Date(2024, 1, 9)

\* The task t as completeTask leaves it when u completes it
MarkedCompleted(t, u) ==
  [tasks[t] EXCEPT !.status = "completed", !.completedBy = u]

\* C13: when the second step of completeAndCreateNext fails (the task has a
\* recurrence and createRecurringTask throws), the call fails with that
\* error, nothing is rolled back, the original stays completed by the caller
\* and no successor is created.
C13_FailedSecondStepKeepsCompletion ==
  [][\A t \in DOMAIN tasks, u \in Callers :
       ( /\ last'.op = "completeAndCreateNext"
         /\ last'.tid = t
         /\ last'.user = u
         /\ tasks[t].recurrence # NoRecurrence
         /\ createRecurringTaskResultIn(tasks', t, u) # "ok" )
       => /\ last'.result = createRecurringTaskResultIn(tasks', t, u)
          /\ last'.result # "ok"
          /\ last'.created = NoId
          /\ tasks' = [tasks EXCEPT ![t] = MarkedCompleted(t, u)]
          /\ tasks'[t].status = "completed"
          /\ successors' = successors
          /\ nextTaskId' = nextTaskId
          /\ properties' = properties]_vars

\* C13 witness: completeAndCreateNext has failed on the validation of the
\* successor (the title had been blanked by updateTask); the original is
\* completed, it was pending before, and it has no successor.
C13_SuccessorRejected ==
  /\ last.op = "completeAndCreateNext"
  /\ last.result = "ValidationError"
  /\ last.changed
  /\ tasks[last.tid].status = "completed"
  /\ tasks[last.tid].completedBy = last.user
  /\ successors[last.tid] = {}
  /\ DOMAIN tasks = {last.tid}

C18_ReopenAndSkipTouchOneTask ==
  [][\A t \in DOMAIN tasks :
       (last'.op \in {"reopenTask", "skipTask"} /\ last'.tid = t)
       => /\ DOMAIN tasks' = DOMAIN tasks
          /\ \A o \in DOMAIN tasks \ {t} : tasks'[o] = tasks[o]
          /\ successors' = successors
          /\ nextTaskId' = nextTaskId
          /\ last'.created = NoId
          /\ last'.op = "reopenTask" =>
               /\ tasks'[t] = [tasks[t] EXCEPT !.status = "pending",
                                               !.completedBy = NoUser]
               /\ ReopenedTask(tasks'[t]) = tasks'[t]
               /\ TaskAccessIn(tasks', last'.user, t).canEdit
          /\ last'.op = "skipTask" =>
               /\ tasks'[t].status = "skipped"
               /\ \A f \in DOMAIN tasks[t] \ {"status"} : tasks'[t][f] = tasks[t][f]]_vars

\* C18 witness: a recurring task that was completed and has a successor has
\* been reopened; it is pending with completedBy null and the successor is
\* still there.
C18_ReopenedWithSuccessor ==
  /\ last.op = "reopenTask"
  /\ last.changed
  /\ tasks[last.tid].recurrence # NoRecurrence
  /\ tasks[last.tid].status = "pending"
  /\ tasks[last.tid].completedBy = NoUser
  /\ successors[last.tid] # {}
  /\ successors[last.tid] \subseteq DOMAIN tasks

\* The users who hold canCreate on some property
Creators ==
  { u \in Users : \E p \in DOMAIN properties : getUserTaskPermissions(u, p).canCreate }

\* C16: addTask by a user who may create tasks rejects a blank title, a
\* missing propertyId and a missing dueDate with the validation error and
\* stores nothing; a task that is stored is pending, with completedBy null
\* and with seasonal, geolocated and source defaulted to false, false and
\* manual when the input does not give them.
C16_AddTaskValidatesAndDefaults ==
  /\ \A data \in TaskInputs, u \in Creators \cap Callers :
       LET invalid == \/ Trim(data.title) = <<>>
                      \/ "propertyId" \notin DOMAIN data
                      \/ "dueDate" \notin DOMAIN data
           permitted == "propertyId" \in DOMAIN data =>
                          getUserTaskPermissions(u, data.propertyId).canCreate
       IN /\ (permitted /\ invalid) => addTaskResult(data, u) = "ValidationError"
          /\ (permitted /\ ~invalid) =>
               /\ addTaskResult(data, u) = "ok"
               /\ NewTask(data).status = "pending"
               /\ NewTask(data).completedBy = NoUser
               /\ "seasonal" \notin DOMAIN data => NewTask(data).seasonal = FALSE
               /\ "geolocated" \notin DOMAIN data => NewTask(data).geolocated = FALSE
               /\ "source" \notin DOMAIN data => NewTask(data).source = "manual"
  /\ last.result = "ValidationError" => ~last.changed

\* C16, the part of it that holds: with canCreate on the property named by
\* the input, a blank title and a missing dueDate are rejected with the
\* validation error and the defaults are as stated.
C16_ValidatesOnNamedProperty ==
  /\ \A data \in TaskInputs, u \in Callers :
       ( /\ "propertyId" \in DOMAIN data
         /\ getUserTaskPermissions(u, data.propertyId).canCreate )
       => IF Trim(data.title) = <<>> \/ "dueDate" \notin DOMAIN data
            THEN addTaskResult(data, u) = "ValidationError"
            ELSE /\ addTaskResult(data, u) = "ok"
                 /\ NewTask(data).status = "pending"
                 /\ NewTask(data).completedBy = NoUser
                 /\ "seasonal" \notin DOMAIN data => NewTask(data).seasonal = FALSE
                 /\ "geolocated" \notin DOMAIN data => NewTask(data).geolocated = FALSE
                 /\ "source" \notin DOMAIN data => NewTask(data).source = "manual"
  /\ last.result = "ValidationError" => ~last.changed

\* C17: a task starts pending and no status is terminal: from any status a
\* user with canEdit gets completed by completeTask, skipped by skipTask and
\* pending by reopenTask, which takes back a completion and a skip alike.
C17_NoTerminalStatus ==
  /\ \A t \in DOMAIN tasks :
       /\ tasks[t].status \in {"pending", "completed", "skipped"}
       /\ \A u \in Callers :
            TaskAccessIn(tasks, u, t).canEdit =>
              /\ completeTaskResult(t, u) = "ok"
              /\ skipTaskResult(t, u) = "ok"
              /\ reopenTaskResult(t, u) = "ok"
              /\ CompletedTask(tasks[t], u).status = "completed"
              /\ SkippedTask(tasks[t]).status = "skipped"
              /\ ReopenedTask(tasks[t]).status = "pending"
  /\ last.created # NoId => tasks[last.created].status = "pending"
  /\ (last.op = "completeTask" /\ last.result = "ok") =>
       tasks[last.tid].status = "completed"
  /\ (last.op = "skipTask" /\ last.result = "ok") =>
       tasks[last.tid].status = "skipped"
  /\ (last.op = "reopenTask" /\ last.result = "ok") =>
       tasks[last.tid].status = "pending"

\* C17 witness: the collaborator B has reopened a task that was not pending
\* while another task is skipped or completed.
C17_ReopenedByCollaborator ==
  /\ last.op = "reopenTask"
  /\ last.user = "B"
  /\ last.changed
  /\ tasks[last.tid].status = "pending"
  /\ \E o \in DOMAIN tasks \ {last.tid} : tasks[o].status # "pending"

\* C15: a call of updateProperty, deleteProperty, shareProperty, addTask,
\* updateTask, completeTask, skipTask, reopenTask or deleteTask that fails
\* with the permission or the validation error, a call on a task id that
\* does not exist included, leaves both collections as they were.
C15_FailuresWriteNothing ==
  /\ last.op = "rejected" =>
       /\ last.result \in {"PermissionDenied", "ValidationError"}
       /\ ~last.changed
  /\ last.changed => last.result = "ok"
  /\ \A t \in TaskIds \ DOMAIN tasks, u \in Callers :
       /\ updateTaskResult(t, u) = "PermissionDenied"
       /\ completeTaskResult(t, u) = "PermissionDenied"
       /\ skipTaskResult(t, u) = "PermissionDenied"
       /\ reopenTaskResult(t, u) = "PermissionDenied"
       /\ deleteTaskResult(t, u) = "PermissionDenied"

\* C15 witness: a call has failed with the permission error after both
\* collections had been written to and while task 1 does not exist any more.
C15_RejectedAfterWrites ==
  /\ last.op = "rejected"
  /\ last.result = "PermissionDenied"
  /\ DOMAIN tasks = {2}
  /\ 1 \in DOMAIN properties
  /\ properties # TaskRegistry

\* C15 witness of the validation error: addTask has been rejected for its
\* title or due date while a task is stored.
C15_InvalidInputRejected ==
  /\ last.op = "rejected"
  /\ last.result = "ValidationError"
  /\ tasks # << >>

\* The pending tasks due before now in the properties of ids the user can view
OverdueOf(ids, u, now) ==
  { t \in DOMAIN tasks :
      /\ tasks[t].status = "pending"
      /\ DateKey(tasks[t].dueDate) < DateKey(now)
      /\ \E i \in 1..Len(ids) : ids[i] = tasks[t].propertyId
      /\ getUserTaskPermissions(u, tasks[t].propertyId).canView }

\* A sequence of task ids in ascending order of due date
AscendingByDueDate(sq) ==
  \A i \in 1..Len(sq), j \in 1..Len(sq) :
    i < j => DateKey(tasks[sq[i]].dueDate) <= DateKey(tasks[sq[j]].dueDate)

\* C19: getOverdueTasks returns exactly the pending tasks due before now of
\* the viewable properties among propertyIds, each once, sorted ascending by
\* due date.
C19_OverdueExactAndSorted ==
  last.op = "getOverdueTasks" =>
    /\ SeqRange(last.returned) = OverdueOf(last.propertyIds, last.user, last.now)
    /\ Len(last.returned) = Cardinality(SeqRange(last.returned))
    /\ AscendingByDueDate(last.returned)

\* C19, the part of it that holds: the tasks returned are exactly the
\* overdue ones, each once.
C19_OverdueExact ==
  last.op = "getOverdueTasks" =>
    /\ SeqRange(last.returned) = OverdueOf(last.propertyIds, last.user, last.now)
    /\ Len(last.returned) = Cardinality(SeqRange(last.returned))

\* The stored tasks of the properties of ids the user can view
ViewableOf(ids, u) ==
  { t \in DOMAIN tasks :
      /\ \E i \in 1..Len(ids) : ids[i] = tasks[t].propertyId
      /\ getUserTaskPermissions(u, tasks[t].propertyId).canView }

BulkReaders ==
  {"getTasksByUser", "getOverdueTasks", "getUpcomingTasks", "getSeasonalTasks",
   "getTasksSummary"}

\* C20: whatever ids are passed, no bulk reader returns or counts a task of
\* a property the user cannot view: the arrays returned and the previews
\* hold viewable tasks only, and the counts of the summary are the numbers
\* of viewable tasks that are overdue, upcoming and seasonal.
C20_ReadersReturnViewableOnly ==
  /\ last.op = "getTasksByProperty" =>
       \A t \in SeqRange(last.returned) :
         /\ tasks[t].propertyId = last.pid
         /\ getUserTaskPermissions(last.user, last.pid).canView
  /\ last.op \in BulkReaders =>
       LET viewable == ViewableOf(last.propertyIds, last.user)
           daysAhead(t) == DayNumber(tasks[t].dueDate) - DayNumber(last.now)
       IN /\ SeqRange(last.returned) \subseteq viewable
          /\ SeqRange(last.summary.overdueTasksPreview) \subseteq viewable
          /\ SeqRange(last.summary.upcomingTasksPreview) \subseteq viewable
          /\ last.op = "getTasksSummary" =>
               /\ last.summary.overdue =
                    Cardinality({ t \in viewable : /\ tasks[t].status = "pending"
                                                   /\ daysAhead(t) < 0 })
               /\ last.summary.upcoming =
                    Cardinality({ t \in viewable : /\ tasks[t].status = "pending"
                                                   /\ daysAhead(t) \in 0..DefaultDays })
               /\ last.summary.seasonal =
                    Cardinality({ t \in viewable : tasks[t].seasonal })

\* C20 witness: A, who has no relation to property 2, has asked for the
\* summary of both properties while property 2 has a pending overdue task;
\* the summary counts the one overdue task of property 1.
C20_SummaryLeavesOutForeignTask ==
  /\ last.op = "getTasksSummary"
  /\ last.user = "A"
  /\ last.propertyIds = <<1, 2>>
  /\ last.summary.overdue = 1
  /\ \E t \in DOMAIN tasks :
       /\ tasks[t].propertyId = 2
       /\ tasks[t].status = "pending"
       /\ DateKey(tasks[t].dueDate) < DateKey(last.now)

\* C21: deleteTask by a user with canDelete removes the targeted task and
\* nothing else: every other task, the recurring predecessor and the
\* successors created from it included, stays as it was, and no property
\* changes.
C21_DeleteRemovesOneTask ==
  [][\A t \in DOMAIN tasks :
       (last'.op = "deleteTask" /\ last'.tid = t)
       => /\ TaskAccessIn(tasks, last'.user, t).canDelete
          /\ DOMAIN tasks' = DOMAIN tasks \ {t}
          /\ \A o \in DOMAIN tasks \ {t} : tasks'[o] = tasks[o]
          /\ properties' = properties]_vars

\* C21 witness: a recurring task that has a stored successor has been
\* deleted and the successor is still stored.
C21_PredecessorDeleted ==
  /\ last.op = "deleteTask"
  /\ last.tid \notin DOMAIN tasks
  /\ successors[last.tid] # {}
  /\ successors[last.tid] \subseteq DOMAIN tasks

\* No stored task names a property that is not stored
NoOrphanTask == \A t \in DOMAIN tasks : tasks[t].propertyId \in DOMAIN properties

\* C27: every stored task references a property that exists, after any
\* sequence of addTask, deleteTask, deleteProperty and completeAndCreateNext.
C27_TasksReferenceStoredProperties ==
  NoOrphanTask

\* C22: under every interleaving of signInWithGoogle and the auth state
\* listener for one principal, a user document exists once both have
\* finished, and a sign-in never resets the linkedProperties or the
\* relationships of a document that is already stored.
C22_SignInKeepsStoredUser ==
  [][/\ (inflight # << >> /\ inflight' = << >>) => AuthUid \in DOMAIN users'
     /\ ( /\ AuthUid \in DOMAIN users
          /\ last'.op \in {"signInWithGoogle", "onAuthStateChanged"} )
        => /\ AuthUid \in DOMAIN users'
           /\ users'[AuthUid].linkedProperties = users[AuthUid].linkedProperties
           /\ users'[AuthUid].relationships = users[AuthUid].relationships]_vars

\* C22, the part of it that holds: a user document exists once both
\* functions have finished.
C22_UserExistsAfterSignIn ==
  (inflight = << >> /\ last.op \in {"signInWithGoogle", "onAuthStateChanged"})
    => AuthUid \in DOMAIN users

\* C23: the sharedWith list of a property changes only through a call of
\* its owner; a collaborator cannot add, remove or change a share entry,
\* neither through shareProperty nor through updateProperty with a
\* sharedWith field in the patch.
C23_SharesChangeOnlyByOwner ==
  [][\A p \in DOMAIN properties \cap DOMAIN properties' :
       properties'[p].sharedWith # properties[p].sharedWith
         => last'.user = properties[p].ownerId]_vars

\* C23, the part of it that holds: shareProperty changes the list for the
\* owner only.
C23_SharePropertyOnlyByOwner ==
  [][\A p \in DOMAIN properties \cap DOMAIN properties' :
       ( /\ properties'[p].sharedWith # properties[p].sharedWith
         /\ last'.op = "shareProperty" )
         => last'.user = properties[p].ownerId]_vars

\* C24: getPropertiesByUser(uid) returns every property that uid owns or
\* that has a sharedWith entry for uid with role collaborator or viewer,
\* each exactly once.
C24_ListsOwnedAndShared ==
  last.op = "getPropertiesByUser" =>
    /\ SeqRange(last.returned) =
         { p \in DOMAIN properties :
             \/ properties[p].ownerId = last.user
             \/ \E i \in 1..Len(properties[p].sharedWith) :
                  /\ properties[p].sharedWith[i].userId = last.user
                  /\ properties[p].sharedWith[i].role \in {"collaborator", "viewer"} }
    /\ Len(last.returned) = Cardinality(SeqRange(last.returned))

\* C24, the part of it that holds: the properties uid owns are returned,
\* each once, and nothing else is.
C24_ListsOwned ==
  last.op = "getPropertiesByUser" =>
    /\ SeqRange(last.returned) =
         { p \in DOMAIN properties : properties[p].ownerId = last.user }
    /\ Len(last.returned) = Cardinality(SeqRange(last.returned))

TaskHooks ==
  {"useCreateTask", "useUpdateTask", "useCompleteTask", "useSkipTask",
   "useReopenTask", "useDeleteTask"}

\* The result of the query k includes the task t of property p: the tasks
\* of the user, the tasks of p, the task t, a summary over an array with p
QueryIncludes(k, p, t) ==
  \/ k = TaskKeysUser(CurrentUser)
  \/ k = TaskKeysProperty(p)
  \/ k = TaskKeysTask(t)
  \/ \E ids \in SummaryLists :
       /\ k = TaskKeysSummary(CurrentUser, ids)
       /\ \E i \in 1..Len(ids) : ids[i] = p

\* C25: after a mutation through a hook has succeeded, no cached query
\* whose result includes the affected task is fresh; after useCreateTask
\* for a task of property P this holds for the summary of every array that
\* contains P, at any position.
C25_MutationInvalidatesQueries ==
  (last.op \in TaskHooks /\ last.result = "ok") =>
    \A k \in DOMAIN cache :
      QueryIncludes(k, last.pid, last.tid) => ~cache[k]

\* C25, the part of it that holds: every hook but useCreateTask leaves no
\* fresh query that includes the task, and useCreateTask leaves none among
\* the user query, the property query and the summaries of arrays that
\* start with P.
C25_InvalidatesByPrefix ==
  (last.op \in TaskHooks /\ last.result = "ok") =>
    \A k \in DOMAIN cache :
      LET startsWithP ==
            \A ids \in SummaryLists :
              k = TaskKeysSummary(CurrentUser, ids) => ids[1] = last.pid
      IN (QueryIncludes(k, last.pid, last.tid)
            /\ (last.op = "useCreateTask" => startsWithP)) => ~cache[k]

\* C26: after a successful updateTask by u, u holds canEdit on the property
\* the stored task names, the title of the stored task is not empty and its
\* status is pending, completed or skipped.
C26_UpdateKeepsTaskValid ==
  (last.op = "updateTask" /\ last.result = "ok") =>
    /\ TaskPermissionsIn(properties, last.user, tasks[last.tid].propertyId).canEdit
    /\ Trim(tasks[last.tid].title) # <<>>
    /\ tasks[last.tid].status \in {"pending", "completed", "skipped"}

\* C26, the part of it that holds: updateTask leaves the status alone
C26_UpdateKeepsStatus ==
  [][last'.op = "updateTask" =>
       \A t \in DOMAIN tasks : tasks'[t].status = tasks[t].status]_vars

\* C28: a task write is applied only for a user who holds the capability
\* when the store is written: right after completeTask by u has written,
\* u holds canEdit on the property of the task, whatever shareProperty
\* calls of the owner ran between the check and the write.
C28_WriteOnlyWithCapability ==
  (last.op = "completeTask" /\ last.result = "ok") =>
    TaskPermissionsIn(properties, last.user, last.pid).canEdit

\* C29: when two shareProperty calls of the owner for two different
\* targets have both returned, sharedWith holds an entry for each target
\* with the requested role.
C29_NoShareLost ==
  (Returned("share1") /\ Returned("share2")
     /\ inflight["share1"].target # inflight["share2"].target) =>
    \A session \in ShareSessions :
      \E i \in 1..Len(properties[1].sharedWith) :
        properties[1].sharedWith[i] =
          Share(inflight[session].target, inflight[session].role)

\* C30: every stored recurrence has a positive interval, so that the due
\* date createRecurringTask computes from a stored task is strictly later
\* than the due date of the task; addTask and updateTask store no zero or
\* negative interval.
C30_StoredIntervalPositive ==
  \A t \in DOMAIN tasks :
    tasks[t].recurrence # NoRecurrence =>
      /\ tasks[t].recurrence.interval > 0
      /\ DateKey(NextDueDate(tasks[t].dueDate, tasks[t].recurrence))
           > DateKey(tasks[t].dueDate)

\* C30, the part of it that holds: a stored positive interval gives a
\* strictly later due date
C30_PositiveIntervalMovesLater ==
  \A t \in DOMAIN tasks :
    (tasks[t].recurrence # NoRecurrence /\ tasks[t].recurrence.interval > 0) =>
      DateKey(NextDueDate(tasks[t].dueDate, tasks[t].recurrence))
        > DateKey(tasks[t].dueDate)

\* A successor stored with a due date that is not later than the due date
\* of its original
C30_SuccessorNotLater ==
  \E t \in DOMAIN tasks : \E n \in successors[t] :
    DateKey(tasks[n].dueDate) <= DateKey(tasks[t].dueDate)

====
